---- MODULE Spec2Model ----
(***************************************************************************)
(* A model of sage.dev.sagedev.SageDev (src/src/sage/dev/sagedev.py): the  *)
(* ticket <-> branch registry, the checkout / abandon / prune_tickets /    *)
(* merge operations of one working copy, and the push protocol of several  *)
(* users against one remote repository and one trac server.                *)
(*                                                                         *)
(* Names (branches, remote branches) are strings, modelled as sequences of *)
(* string tokens so that 'trash/{0}'.format(b) and b + "_" are computed as *)
(* the code computes them.  A commit is the set of the atomic changes it   *)
(* contains: a is an ancestor of b iff a \subseteq b, a merge is the union.*)
(***************************************************************************)
EXTENDS Integers, Sequences, FiniteSets, TLC

\* ---------------------------------------------------------------- bounds
NTickets == 2          \* tickets 1..NTickets exist on trac and are operated on
MaxCommits == 2        \* commits created by `git commit` in one behaviour
MaxOps == 3            \* operations the developer runs in one behaviour
MaxArgs == 2           \* tickets and branches given to one gather

Users == {"alice", "bob"}
Tickets == 1..NTickets
\* a ticket that exists on trac, is never checked out, and may be declared as
\* a dependency on trac
ForeignTicket == NTickets + 1

None == <<>>           \* Python's None where a name is expected
NoTicket == 0          \* Python's None where a ticket is expected
MASTER_BRANCH == <<"master">>
Digits == <<"1", "2", "3", "4", "5">>

\* ------------------------------------------------------------- arguments
\* ticket / branch / base arguments are dynamically typed in the code
BaseEmpty == [k |-> "empty"]                    \* base=''
BaseNone == [k |-> "none"]                      \* base=None
ArgTicket(t) == [k |-> "ticket", t |-> t]
ArgBranch(n) == [k |-> "branch", n |-> n]
IsTicketArg(a) == a.k = "ticket"

VARIABLES
  branches,   \* branches[u]: local branch name -> commit        (git refs)
  cur,        \* cur[u]: the checked-out local branch            (git HEAD)
  t2b,        \* t2b[u]: ticket -> local branch   (__ticket_to_branch)
  b2t,        \* b2t[u]: local branch -> ticket   (__branch_to_ticket)
  deps,       \* deps[u]: ticket -> sequence of tickets (__ticket_dependencies)
  b2r,        \* b2r[u]: local branch -> remote branch (__branch_to_remote_branch)
  remote,     \* remote branch name -> commit      (the shared repository)
  field,      \* field[t]: the "Branch:" field of ticket t on trac, or None
  tracDeps,   \* tracDeps[t]: the dependencies of ticket t on trac
  nextAtom,   \* the next fresh atomic change
  nops,       \* number of operations the developer has run so far
  pc,         \* pc[u]: position of u's running push(), "idle" when none
  pl,         \* pl[u]: the locals of u's running push()
  last,       \* the operation that completed last, its arguments and outcome
  wt          \* the working tree of the developer: git state and files

gitVars == <<branches, cur>>
regVars == <<t2b, b2t, deps, b2r>>
remoteVars == <<remote, field, tracDeps>>
pushVars == <<pc, pl>>
vars == <<branches, cur, t2b, b2t, deps, b2r, remote, field, tracDeps,
          nextAtom, nops, pc, pl, last, wt>>

\* ------------------------------------------------------------ functions
Put(f, k, v) == [x \in DOMAIN f \cup {k} |-> IF x = k THEN v ELSE f[x]]
Del(f, k) == [x \in DOMAIN f \ {k} |-> f[x]]
InSeq(x, s) == \E i \in 1..Len(s) : s[i] = x
Count(x, s) == Cardinality({i \in 1..Len(s) : s[i] = x})

\* git.is_ancestor_of(a, b) on commits
IsAncestorOf(a, b) == a \subseteq b

\* the local state of user u as one record, and its write-back
Loc(u) == [branches |-> branches[u], cur |-> cur[u], t2b |-> t2b[u],
           b2t |-> b2t[u], deps |-> deps[u], b2r |-> b2r[u]]
SetLoc(u, s) ==
  /\ branches' = [branches EXCEPT ![u] = s.branches]
  /\ cur' = [cur EXCEPT ![u] = s.cur]
  /\ t2b' = [t2b EXCEPT ![u] = s.t2b]
  /\ b2t' = [b2t EXCEPT ![u] = s.b2t]
  /\ deps' = [deps EXCEPT ![u] = s.deps]
  /\ b2r' = [b2r EXCEPT ![u] = s.b2r]

\* an outcome of an operation: the local state it leaves and how it ended
Out(s, res) == [s |-> s, res |-> res]

\* ---------------------------------------------------- naming and validation
\* _is_local_branch_name(name, exists): exists is "True", "False" or "any"
IsLocalBranchName(s, name, exists) ==
  /\ name # None
  /\ CASE exists = "any" -> TRUE
       [] exists = "True" -> name \in DOMAIN s.branches
       [] exists = "False" -> name \notin DOMAIN s.branches

\* _is_trash_name(name, exists)
IsTrashName(s, name, exists) ==
  /\ Len(name) >= 1 /\ name[1] = "trash/"
  /\ IsLocalBranchName(s, name, exists)

\* _is_remote_branch_name(name, exists=True)
RemoteBranchExists(name) == name # None /\ name \in DOMAIN remote

\* variant: the first trash name is taken without a check
TrashNameUnchecked(s, branch) == <<"trash/">> \o branch

\* _new_local_branch_for_trash(branch)
RECURSIVE NewLocalBranchForTrash(_, _)
NewLocalBranchForTrash(s, branch) ==
  LET trash_branch == <<"trash/">> \o branch
  IN IF IsTrashName(s, trash_branch, "False")
     THEN trash_branch
     ELSE NewLocalBranchForTrash(s, Append(branch, "_"))

\* _new_local_branch_for_ticket(ticket): 'ticket/<n>', with "_" appended
\* until the name is free
RECURSIVE FreeName(_, _)
FreeName(s, name) ==
  IF IsLocalBranchName(s, name, "False") THEN name ELSE FreeName(s, Append(name, "_"))
NewLocalBranchForTicket(s, t) == FreeName(s, <<"ticket/", Digits[t]>>)

\* ------------------------------------------------------------ the registry
\* SavingDict paired assignment: ticket_to_branch[t] = b keeps
\* branch_to_ticket the inverse map
UnlinkTicket(s, t) ==
  IF t \in DOMAIN s.t2b
  THEN [s EXCEPT !.t2b = Del(s.t2b, t), !.b2t = Del(s.b2t, s.t2b[t])]
  ELSE s
UnlinkBranch(s, b) ==
  IF b \in DOMAIN s.b2t
  THEN [s EXCEPT !.b2t = Del(s.b2t, b), !.t2b = Del(s.t2b, s.b2t[b])]
  ELSE s
LinkPair(s, t, b) ==
  LET s1 == UnlinkBranch(UnlinkTicket(s, t), b)
  IN [s1 EXCEPT !.t2b = Put(s1.t2b, t, b), !.b2t = Put(s1.b2t, b, t)]

\* variant: only ticket_to_branch is written
SetLocalBranchOneWay(s, t, b) ==
  IF b = None THEN [s EXCEPT !.t2b = Del(s.t2b, t)]
  ELSE [s EXCEPT !.t2b = Put(s.t2b, t, b)]

\* _set_local_branch_for_ticket(ticket, branch)
SetLocalBranchForTicket(s, t, b) ==
  IF b = None THEN UnlinkTicket(s, t) ELSE LinkPair(s, t, b)

\* variant: the dependencies are stored in increasing order
SetDependenciesSorted(s, t, d) ==
  [s EXCEPT !.deps[t] = SortSeq(d, LAMBDA a, b : a < b)]

\* _set_dependencies_for_ticket(ticket, dependencies); None clears
SetDependenciesForTicket(s, t, d) == [s EXCEPT !.deps[t] = d]

\* _dependencies_for_ticket(ticket)
DependenciesForTicket(s, t) == s.deps[t]

\* _has_ticket_for_local_branch / _ticket_for_local_branch
HasTicketForLocalBranch(s, b) == b \in DOMAIN s.b2t
TicketForLocalBranch(s, b) == s.b2t[b]

\* _has_local_branch_for_ticket: a ticket whose recorded branch no longer
\* exists loses its link (with a warning)
\* variant: the lookup leaves the link to the missing branch in place
KeepLink(s, t) == s

HealLink(s, t) ==
  IF t \in DOMAIN s.t2b /\ ~IsLocalBranchName(s, s.t2b[t], "True")
  THEN UnlinkTicket(s, t)
  ELSE s
\* the warning 'Ticket #t refers to the non-existant local branch' is shown
HealWarning(s, t) == t \in DOMAIN s.t2b /\ ~IsLocalBranchName(s, s.t2b[t], "True")
HasLocalBranchForTicket(s, t) ==
  t \in DOMAIN s.t2b /\ IsLocalBranchName(s, s.t2b[t], "True")

\* _current_ticket()
CurrentTicket(s) == IF s.cur \in DOMAIN s.b2t THEN s.b2t[s.cur] ELSE NoTicket

\* _remote_branch_for_branch(branch)
RemoteBranchForBranch(s, b) ==
  IF b \in DOMAIN s.b2r THEN s.b2r[b]
  ELSE IF b = MASTER_BRANCH THEN MASTER_BRANCH
  ELSE None

\* _remote_branch_for_ticket(ticket): "u/<user>/ticket/<n>" unless the
\* ticket's local branch records another remote branch
DefaultRemoteBranch(u, t) == <<"u/", u, "/", "ticket/", Digits[t]>>
RemoteBranchForTicket(u, s, t) ==
  IF HasLocalBranchForTicket(s, t) /\ RemoteBranchForBranch(s, s.t2b[t]) # None
  THEN RemoteBranchForBranch(s, s.t2b[t])
  ELSE DefaultRemoteBranch(u, t)

\* _set_remote_branch_for_branch(branch, remote_branch)
SetRemoteBranchForBranch(s, b, r) ==
  IF r = None THEN [s EXCEPT !.b2r = Del(s.b2r, b)]
  ELSE [s EXCEPT !.b2r = Put(s.b2r, b, r)]

\* ------------------------------------------------------------------- git
\* git branch <name> <commit>: fails when the name is taken
GitBranchOk(s, name) == name \notin DOMAIN s.branches
GitBranch(s, name, commit) == [s EXCEPT !.branches = Put(s.branches, name, commit)]
\* git branch -D <name>: git refuses to delete the checked-out branch
GitBranchDelete(s, name) ==
  IF name = s.cur THEN s ELSE [s EXCEPT !.branches = Del(s.branches, name)]
\* git branch -m <old> <new>
GitBranchMove(s, old, new) ==
  [s EXCEPT !.branches = Put(Del(s.branches, old), new, s.branches[old])]

\* the working directory an operation finds, and the answer the user gives
\* when asked about it: tree "clean", "dirty" (uncommitted changes) or
\* "merge" (in the middle of a merge); sel "discard" (also stash, reset) or
\* "cancel" (offered as "keep" when nothing has to be cleaned)
Clean == [tree |-> "clean", sel |-> "cancel"]
GuardCases == {Clean, [tree |-> "dirty", sel |-> "discard"],
               [tree |-> "dirty", sel |-> "cancel"],
               [tree |-> "merge", sel |-> "cancel"]}

\* the cases the developer's checkouts run into: a clean working directory,
\* and uncommitted changes with the answer cancel (or keep)
GuardAnswers == {Clean, [tree |-> "dirty", sel |-> "cancel"]}

\* variant: the working directory never stops a checkout
GuardNeverCancels(g, same_commit) == FALSE

\* reset_to_clean_state() and clean(error_unless_clean) in checkout_branch
\* raise OperationCancelledError: "Reset repository?" answered cancel, or
\* "Discard changes?" answered cancel when the commits differ
GuardCancels(g, same_commit) ==
  \/ g.tree = "merge" /\ g.sel = "cancel"
  \/ g.tree = "dirty" /\ g.sel = "cancel" /\ ~same_commit

\* checkout_branch(branch): the working directory is switched to branch
CheckoutBranch(s, b, g) ==
  IF ~IsLocalBranchName(s, b, "True") THEN Out(s, "ValueError")
  ELSE IF GuardCancels(g, s.branches[s.cur] = s.branches[b]) THEN Out(s, "Cancelled")
  ELSE Out([s EXCEPT !.cur = b], "ok")

\* ------------------------------------------------- the working tree
\* a working tree: the state of git ("idle", or "merge" in the middle of a
\* merge), whether tracked files have uncommitted changes, whether there are
\* untracked files
IdleTree == [state |-> "idle", tracked |-> FALSE, untracked |-> FALSE]
Trees == [state : {"idle", "merge"}, tracked : BOOLEAN, untracked : BOOLEAN]

\* what a guard returns: the tree it leaves, how it ended, whether it
\* prompted the user
Guarded(tree, res, asked) == [tree |-> tree, res |-> res, asked |-> asked]

\* git.reset_to_clean_state(): the merge is aborted and the uncommitted
\* changes are discarded
GitResetToCleanState(tree) == [tree EXCEPT !.state = "idle", !.tracked = FALSE]

\* git.clean_wrapper(): tracked files are reset and untracked files removed
GitCleanWrapper(tree) == [tree EXCEPT !.tracked = FALSE, !.untracked = FALSE]

\* git stash: the changes of tracked files go to the stash stack, untracked
\* files stay where they are
GitStash(tree) == [tree EXCEPT !.tracked = FALSE]

\* variant: "Reset repository?" answered cancel always raises
ResetCancelAlwaysRaises(error_unless_clean) == TRUE

\* "Reset repository?" answered cancel: return if not error_unless_clean,
\* raise OperationCancelledError otherwise
ResetCancelRaises(error_unless_clean) == error_unless_clean

\* reset_to_clean_state(error_unless_clean); sel: the answer to "Reset
\* repository?"
ResetGuard(tree, error_unless_clean, sel) ==
  IF tree.state = "idle" THEN Guarded(tree, "ok", FALSE)
  ELSE IF sel = "cancel"
  THEN Guarded(tree, IF ResetCancelRaises(error_unless_clean) THEN "Cancelled" ELSE "ok", TRUE)
  ELSE Guarded(GitResetToCleanState(tree), "ok", TRUE)

\* variant: untracked files count as uncommitted changes
HasChangesOrUntracked(tree) == tree.tracked \/ tree.untracked

\* git.has_uncommitted_changes(): files "?" of git status do not count
HasUncommittedChanges(tree) == tree.tracked

\* the answers to "Reset repository?", asked when git is not idle
ResetOptions(tree) == IF tree.state = "idle" THEN {"cancel"} ELSE {"reset", "cancel"}

\* the middle option of "Discard changes?"
CancelOption(error_unless_clean) == IF error_unless_clean THEN "cancel" ELSE "keep"
CleanOptions(error_unless_clean) == {"discard", CancelOption(error_unless_clean), "stash"}

\* variant: "Discard changes?" answered cancel never raises
CleanCancelNeverRaises(error_unless_clean) == FALSE

\* "Discard changes?" answered cancel raises OperationCancelledError if
\* error_unless_clean
CleanCancelRaises(error_unless_clean) == error_unless_clean

\* clean(error_unless_clean); rsel: the answer to "Reset repository?", sel:
\* the answer to "Discard changes?"
CleanGuard(tree, error_unless_clean, rsel, sel) ==
  LET r == ResetGuard(tree, error_unless_clean, rsel)
  IN IF r.res # "ok" THEN r
     ELSE IF ~HasUncommittedChanges(r.tree) THEN r
     ELSE IF sel = "discard" THEN Guarded(GitCleanWrapper(r.tree), "ok", TRUE)
     ELSE IF sel = "stash" THEN Guarded(GitStash(r.tree), "ok", TRUE)
     ELSE Guarded(r.tree,
                  IF CleanCancelRaises(error_unless_clean) THEN "Cancelled" ELSE "ok",
                  TRUE)

\* variant: checkout_branch never insists on a clean working tree
NeverErrorUnlessClean(current_commit, target_commit) == FALSE

\* checkout_branch: error_unless_clean=(current_commit != target_commit)
ErrorUnlessClean(current_commit, target_commit) == current_commit # target_commit

\* the options of "Discard changes?" in checkout_branch(b)
CheckoutOptions(s, b) == CleanOptions(ErrorUnlessClean(s.branches[s.cur], s.branches[b]))

\* checkout_branch(b) in the working tree tree: reset_to_clean_state(), then
\* clean(error_unless_clean=...), then git checkout, which leaves locally
\* modified files intact
CheckoutBranchInTree(s, b, tree, rsel, sel) ==
  IF ~IsLocalBranchName(s, b, "True") THEN [s |-> s, res |-> "ValueError", tree |-> tree]
  ELSE LET r == ResetGuard(tree, TRUE, rsel)
           c == CleanGuard(r.tree, ErrorUnlessClean(s.branches[s.cur], s.branches[b]),
                           rsel, sel)
       IN IF r.res # "ok" THEN [s |-> s, res |-> "Cancelled", tree |-> r.tree]
          ELSE IF c.res # "ok" THEN [s |-> s, res |-> "Cancelled", tree |-> c.tree]
          ELSE [s |-> [s EXCEPT !.cur = b], res |-> "ok", tree |-> c.tree]

\* ------------------------------------------------------------- checkout
\* _local_branch_for_ticket(ticket, pull_if_not_found=True): the ticket's
\* local branch, created from the branch on trac when there is none
LocalBranchForTicket(s0, t) ==
  LET s == HealLink(s0, t)
      branch == NewLocalBranchForTicket(s, t)
      remote_branch == field[t]
  IN IF HasLocalBranchForTicket(s, t)
     THEN [s |-> s, res |-> "ok", branch |-> s.t2b[t]]
     ELSE IF remote_branch = None
     THEN [s |-> s, res |-> "ValueError", branch |-> None]
     ELSE IF ~RemoteBranchExists(remote_branch)
     THEN [s |-> s, res |-> "ValueError", branch |-> None]
     ELSE [s |-> SetLocalBranchForTicket(
                   GitBranch(s, branch, remote[remote_branch]), t, branch),
           res |-> "ok", branch |-> branch]

\* the try block of checkout_ticket: the start commit of the new branch, or
\* the error that ends the attempt
NewBranchStart(s, t, branch, base, baseName, confirm) ==
  LET remote_branch == field[t]
  IN IF base = BaseEmpty
     THEN IF remote_branch = None
          THEN IF GitBranchOk(s, branch)
               THEN [res |-> "ok", commit |-> s.branches[MASTER_BRANCH]]
               ELSE [res |-> "GitError", commit |-> {}]
          ELSE IF ~RemoteBranchExists(remote_branch)
               THEN [res |-> "Cancelled", commit |-> {}]
               ELSE IF GitBranchOk(s, branch)
                    THEN [res |-> "ok", commit |-> remote[remote_branch]]
                    ELSE [res |-> "GitError", commit |-> {}]
     ELSE IF ~IsLocalBranchName(s, baseName, "True")
          THEN [res |-> "ValueError", commit |-> {}]
          ELSE IF remote_branch # None /\ ~confirm
               THEN [res |-> "Cancelled", commit |-> {}]
               ELSE IF GitBranchOk(s, branch)
                    THEN [res |-> "ok", commit |-> s.branches[baseName]]
                    ELSE [res |-> "GitError", commit |-> {}]

\* the except clause of checkout_ticket: delete the branch if it exists
RollbackNewBranch(s, branch) ==
  IF IsLocalBranchName(s, branch, "True") THEN GitBranchDelete(s, branch) ELSE s

\* the dependencies checkout_ticket records for the new branch of ticket t:
\* the base when it is a ticket, else those on trac
InitialDependencies(t, base) ==
  IF IsTicketArg(base) THEN <<base.t>> ELSE tracDeps[t]

\* checkout_ticket, from "branch does not exist, so we have to create a new
\* branch for ticket" on
CreateBranchForTicket(u, s, t, branch, base0, confirm, g) ==
  LET base == IF base0 = BaseNone /\ CurrentTicket(s) # NoTicket
              THEN ArgTicket(CurrentTicket(s)) ELSE base0
  IN IF base = BaseNone THEN Out(s, "ValueError")
     ELSE
     LET lb == IF IsTicketArg(base) THEN LocalBranchForTicket(s, base.t)
               ELSE [s |-> s, res |-> "ok", branch |-> None]
         dependencies == InitialDependencies(t, base)
         baseName == IF IsTicketArg(base) THEN lb.branch
                     ELSE IF base = BaseEmpty THEN None ELSE base.n
         baseKind == IF IsTicketArg(base) THEN ArgBranch(baseName) ELSE base
         st == NewBranchStart(lb.s, t, branch, baseKind, baseName, confirm)
         s3 == GitBranch(lb.s, branch, st.commit)
         s4 == SetLocalBranchForTicket(s3, t, branch)
         s5 == IF dependencies # <<>>
               THEN SetDependenciesForTicket(s4, t, dependencies) ELSE s4
         s6 == SetRemoteBranchForBranch(s5, branch, RemoteBranchForTicket(u, s5, t))
     IN IF lb.res # "ok" THEN Out(lb.s, lb.res)
        ELSE IF st.res # "ok" THEN Out(RollbackNewBranch(lb.s, branch), st.res)
        ELSE CheckoutBranch(s6, branch, g)

\* variant: checkout_ticket without the shortcut for a ticket that has a
\* local branch
CheckoutTicketAlwaysNew(u, s0, t, branch, base, confirm, g) ==
  CreateBranchForTicket(u, s0, t,
    IF branch = None THEN NewLocalBranchForTicket(s0, t) ELSE branch, base, confirm, g)

\* variant: no branch is taken for the master branch
NeverMaster(branch) == FALSE

\* branch == MASTER_BRANCH: the test that keeps checkout from binding the
\* master branch and abandon from renaming it
IsMasterBranch(branch) == branch = MASTER_BRANCH

\* checkout_ticket(ticket, branch, base)
CheckoutTicket(u, s0, t, branch, base, confirm, g) ==
  IF branch # None /\ IsLocalBranchName(s0, branch, "True")
  THEN IF base # ArgBranch(MASTER_BRANCH) THEN Out(s0, "ValueError")
       ELSE IF IsMasterBranch(branch) THEN Out(s0, "ValueError")
       ELSE CheckoutBranch(SetLocalBranchForTicket(s0, t, branch), branch, g)
  ELSE LET s1 == IF branch = None THEN HealLink(s0, t) ELSE s0
       IN IF branch = None /\ HasLocalBranchForTicket(s1, t)
          THEN CheckoutBranch(s1, s1.t2b[t], g)
          ELSE CreateBranchForTicket(u, s1, t,
                 IF branch = None THEN NewLocalBranchForTicket(s1, t) ELSE branch,
                 base, confirm, g)

\* -------------------------------------------------------------- abandon
\* the local branch abandon(ticket_or_branch) is about, None when a ticket
\* has no local branch
AbandonTarget(s0, arg) ==
  LET s == IF IsTicketArg(arg) THEN HealLink(s0, arg.t) ELSE s0
  IN IF ~IsTicketArg(arg) THEN arg.n
     ELSE IF HasLocalBranchForTicket(s, arg.t) THEN s.t2b[arg.t] ELSE None

\* variant: abandon without the check for the current branch
AbandonUnguarded(s0, arg) ==
  LET s == IF IsTicketArg(arg) THEN HealLink(s0, arg.t) ELSE s0
      branch == AbandonTarget(s0, arg)
      ticket == IF HasTicketForLocalBranch(s, branch)
                THEN TicketForLocalBranch(s, branch)
                ELSE IF IsTicketArg(arg) THEN arg.t ELSE NoTicket
      s1 == GitBranchMove(s, branch, NewLocalBranchForTrash(s, branch))
  IN IF ~IsLocalBranchName(s, branch, "True") THEN Out(s, "ValueError")
     ELSE IF IsMasterBranch(branch) THEN Out(s, "Cancelled")
     ELSE IF ticket = NoTicket THEN Out(s1, "ok")
     ELSE Out(SetDependenciesForTicket(
                SetLocalBranchForTicket(s1, ticket, None), ticket, <<>>), "ok")

\* abandon(ticket_or_branch)
Abandon(s0, arg) ==
  LET s == IF IsTicketArg(arg) THEN HealLink(s0, arg.t) ELSE s0
      noBranch == IsTicketArg(arg) /\ ~HasLocalBranchForTicket(s, arg.t)
      branch == IF IsTicketArg(arg) THEN s.t2b[arg.t] ELSE arg.n
      ticket == IF HasTicketForLocalBranch(s, branch)
                THEN TicketForLocalBranch(s, branch)
                ELSE IF IsTicketArg(arg) THEN arg.t ELSE NoTicket
      new_branch == NewLocalBranchForTrash(s, branch)
      s1 == GitBranchMove(s, branch, new_branch)
      s2 == IF ticket # NoTicket
            THEN SetDependenciesForTicket(
                   SetLocalBranchForTicket(s1, ticket, None), ticket, <<>>)
            ELSE s1
  IN IF noBranch THEN Out(s, "ValueError")
     ELSE IF ~IsLocalBranchName(s, branch, "True") THEN Out(s, "ValueError")
     ELSE IF IsMasterBranch(branch) THEN Out(s, "Cancelled")
     ELSE IF s.cur = branch THEN Out(s, "Cancelled")
     ELSE Out(s2, "ok")

\* ---------------------------------------------------------------- merge
\* git merge <other> into the checked-out branch
GitMerge(s, other) == [s EXCEPT !.branches[s.cur] = s.branches[s.cur] \cup other]
Diverged(a, b) == ~IsAncestorOf(a, b) /\ ~IsAncestorOf(b, a)

\* variant: the dependency is appended without looking
RecordDependencyAlways(s, ticket, current_ticket) ==
  SetDependenciesForTicket(s, current_ticket,
    Append(DependenciesForTicket(s, current_ticket), ticket))

\* the final step of merge: record the dependency
RecordDependency(s, ticket, current_ticket) ==
  LET dependencies == DependenciesForTicket(s, current_ticket)
  IN IF InSeq(ticket, dependencies) THEN s
     ELSE SetDependenciesForTicket(s, current_ticket, Append(dependencies, ticket))

\* variant: merge without the check for the current ticket
NeverSelfMerge(ticket, current_ticket) == FALSE

\* "cannot merge a ticket into itself"
IsSelfMerge(ticket, current_ticket) == ticket = current_ticket

\* how merge reads its arguments: the ticket, the local branch, the remote
\* branch, pull and create_dependency it ends up with, or the error.
\* pull and create_dependency are "None", "True" or "False".
MergePlan(s, arg, pull, create_dependency) ==
  LET current_ticket == CurrentTicket(s)
      plan(res, ticket, branch, remote_branch, p, cd) ==
        [res |-> res, ticket |-> ticket, branch |-> branch,
         remote_branch |-> remote_branch, pull |-> p, cd |-> cd]
      err(res) == plan(res, NoTicket, None, None, FALSE, FALSE)
  IN IF IsTicketArg(arg)
     THEN LET p == pull # "False"
              cd == create_dependency # "False"
              branch == IF HasLocalBranchForTicket(s, arg.t) THEN s.t2b[arg.t] ELSE None
          IN IF IsSelfMerge(arg.t, current_ticket) THEN err("ValueError")
             ELSE IF p /\ field[arg.t] = None THEN err("Cancelled")
             ELSE plan("ok", arg.t, branch, IF p THEN field[arg.t] ELSE None, p, cd)
     ELSE IF pull = "False" \/ (pull = "None" /\ ~RemoteBranchExists(arg.n))
     THEN \* a local branch name
          IF ~IsLocalBranchName(s, arg.n, "True") THEN err("ValueError")
          ELSE IF create_dependency = "True"
          THEN IF HasTicketForLocalBranch(s, arg.n)
               THEN plan("ok", TicketForLocalBranch(s, arg.n), arg.n, None, FALSE, TRUE)
               ELSE err("ValueError")
          ELSE plan("ok", NoTicket, arg.n, None, FALSE, FALSE)
     ELSE \* a remote branch name
          IF ~RemoteBranchExists(arg.n) THEN err("ValueError")
          ELSE IF create_dependency = "True" THEN err("ValueError")
          ELSE plan("ok", NoTicket, None, arg.n, TRUE, FALSE)

\* how merge ends: the working copy, the result, and the state of the
\* working directory: "clean", or "merge" (in the middle of a merge)
Ended(s, res, tree) == [s |-> s, res |-> res, tree |-> tree]

\* the commit merge merges: FETCH_HEAD of the remote branch, or the local
\* branch
MergeHead(s, m) ==
  IF m.pull THEN remote[m.remote_branch] ELSE s.branches[m.branch]

\* the answers to "Finished?" after a failed automatic merge; with
\* "ok, commit fails" the commit of the resolution raises
ConflictAnswers == {"ok", "abort", "ok, commit fails"}

\* variant: a failed merge is left as it is
LeftInMerge(tree) == tree

\* git.reset_to_clean_state() and git.clean_wrapper() after the conflict
\* resolution was given up
ResetToCleanState(tree) == "clean"

\* variant: merge records the dependency before it merges
MergeRecordsFirst(s0, arg, pull, create_dependency, conflict, sel) ==
  LET s == IF IsTicketArg(arg) THEN HealLink(s0, arg.t) ELSE s0
      current_ticket == CurrentTicket(s)
      m == MergePlan(s, arg, pull, create_dependency)
      other == MergeHead(s, m)
      recorded == IF m.cd /\ m.ticket # NoTicket /\ current_ticket # NoTicket
                  THEN RecordDependency(s, m.ticket, current_ticket) ELSE s
  IN IF m.res # "ok" THEN Ended(s, m.res, "clean")
     ELSE IF m.pull /\ ~RemoteBranchExists(m.remote_branch) THEN Ended(s, "Cancelled", "clean")
     ELSE IF ~m.pull /\ m.branch = None THEN Ended(s, "AssertionError", "clean")
     ELSE IF conflict /\ Diverged(s.branches[s.cur], other) /\ sel = "abort"
     THEN Ended(recorded, "Cancelled", ResetToCleanState("merge"))
     ELSE IF conflict /\ Diverged(s.branches[s.cur], other) /\ sel = "ok, commit fails"
     THEN Ended(recorded, "GitError", ResetToCleanState("merge"))
     ELSE IF m.cd /\ (m.ticket = NoTicket \/ current_ticket = NoTicket)
     THEN Ended(GitMerge(s, other), "AssertionError", "clean")
     ELSE Ended(GitMerge(recorded, other), "ok", "clean")

\* merge(ticket_or_branch, pull, create_dependency) in a clean working
\* directory; conflict: git reports a conflict when the histories have
\* diverged; sel: the answer to "Finished?"
Merge(s0, arg, pull, create_dependency, conflict, sel) ==
  LET s == IF IsTicketArg(arg) THEN HealLink(s0, arg.t) ELSE s0
      current_ticket == CurrentTicket(s)
      m == MergePlan(s, arg, pull, create_dependency)
      other == MergeHead(s, m)
      merged == GitMerge(s, other)
  IN IF m.res # "ok" THEN Ended(s, m.res, "clean")
     ELSE IF m.pull /\ ~RemoteBranchExists(m.remote_branch) THEN Ended(s, "Cancelled", "clean")
     ELSE IF ~m.pull /\ m.branch = None THEN Ended(s, "AssertionError", "clean")
     ELSE IF conflict /\ Diverged(s.branches[s.cur], other) /\ sel = "abort"
     THEN Ended(s, "Cancelled", ResetToCleanState("merge"))
     ELSE IF conflict /\ Diverged(s.branches[s.cur], other) /\ sel = "ok, commit fails"
     THEN Ended(s, "GitError", ResetToCleanState("merge"))
     ELSE IF ~m.cd THEN Ended(merged, "ok", "clean")
     ELSE IF m.ticket = NoTicket \/ current_ticket = NoTicket
     THEN Ended(merged, "AssertionError", "clean")
     ELSE Ended(RecordDependency(merged, m.ticket, current_ticket), "ok", "clean")

\* merge(ticket_or_branch, pull, create_dependency) with its guard; g: the
\* working directory merge finds and the answer to the guard's question
MergeGuarded(s, arg, pull, create_dependency, conflict, sel, g) ==
  IF GuardCancels(g, FALSE) THEN Ended(s, "Cancelled", g.tree)
  ELSE Merge(s, arg, pull, create_dependency, conflict, sel)

\* -------------------------------------------------------- prune_tickets
\* variant: the test of prune_tickets without the ancestor check
BoundToTicket(s, branch) == HasTicketForLocalBranch(s, branch)

\* the test prune_tickets makes on a local branch before it abandons it
PruneTest(s, branch) ==
  /\ HasTicketForLocalBranch(s, branch)
  /\ IsAncestorOf(s.branches[branch], s.branches[MASTER_BRANCH])

\* the local branches prune_tickets abandons: bound to a ticket and merged
\* into master
MergedTicketBranches(s) == {b \in DOMAIN s.branches : PruneTest(s, b)}

\* the orders in which git.local_branches() may list a set of branches
Orders(S) ==
  {f \in [1..Cardinality(S) -> S] : \A i, j \in 1..Cardinality(S) : f[i] = f[j] => i = j}

\* prune_tickets(): the loop over the branches listed before it started; it
\* stops at the first abandon that raises
RECURSIVE PruneLoop(_, _)
PruneLoop(s, order) ==
  IF order = <<>> THEN Out(s, "ok")
  ELSE IF ~PruneTest(s, Head(order)) THEN PruneLoop(s, Tail(order))
  ELSE LET o == Abandon(s, ArgTicket(TicketForLocalBranch(s, Head(order))))
       IN IF o.res # "ok" THEN o ELSE PruneLoop(o.s, Tail(order))

\* --------------------------------------------------------------- gather
\* how gather reads one of its arguments: ("local", name), ("remote", name),
\* or the error it raises
GatherBranchOf(s, x) ==
  LET is(kind, name) == [res |-> "ok", kind |-> kind, name |-> name]
      err == [res |-> "ValueError", kind |-> "", name |-> None]
  IN IF IsTicketArg(x)
     THEN IF field[x.t] = None THEN err
          ELSE IF ~RemoteBranchExists(field[x.t]) THEN err
          ELSE is("remote", field[x.t])
     ELSE IF IsLocalBranchName(s, x.n, "True") THEN is("local", x.n)
     ELSE IF ~RemoteBranchExists(x.n) THEN err
     ELSE is("remote", x.n)

\* variant: the merge step of gather merges the branch of the list
MergeListed(branch, branch_name) == branch_name

\* the branch the merge step of gather passes to merge: the new branch
MergeArgument(branch, branch_name) == branch

\* the merge steps of gather on the new branch; the first merge that raises
\* ends them
RECURSIVE GatherMerges(_, _, _, _, _)
GatherMerges(s, branch, list, conflict, sel) ==
  IF list = <<>> THEN Ended(s, "ok", "clean")
  ELSE LET o == Merge(s, ArgBranch(MergeArgument(branch, Head(list).name)),
                      IF Head(list).kind = "remote" THEN "True" ELSE "False",
                      "None", conflict, sel)
       IN IF o.res # "ok" THEN o
          ELSE GatherMerges(o.s, branch, Tail(list), conflict, sel)

\* variant: the rollback of gather stays on the new branch
StayOnBranch(s) == s

\* vanilla(): HEAD is detached at master
Vanilla(s) == [s EXCEPT !.cur = MASTER_BRANCH]

\* how gather ends: the working copy, the result, the working directory, and
\* whether HEAD is on the branch s.cur or detached at its commit
Gathered(s, res, tree, head) == [s |-> s, res |-> res, tree |-> tree, head |-> head]

\* gather(branch, *tickets_or_branches); g: the working directory and the
\* answer to the guard's question
Gather(s, branch, tickets_or_branches, g, conflict, sel) ==
  LET list == [i \in 1..Len(tickets_or_branches) |->
                 GatherBranchOf(s, tickets_or_branches[i])]
      created == [GitBranch(s, branch, s.branches[MASTER_BRANCH]) EXCEPT !.cur = branch]
      o == GatherMerges(created, branch, list, conflict, sel)
  IN IF GuardCancels(g, FALSE) THEN Gathered(s, "Cancelled", g.tree, "branch")
     ELSE IF ~IsLocalBranchName(s, branch, "False") THEN Gathered(s, "ValueError", "clean", "branch")
     ELSE IF \E i \in 1..Len(list) : list[i].res # "ok"
     THEN Gathered(s, "ValueError", "clean", "branch")
     ELSE IF o.res = "ok" THEN Gathered(o.s, "ok", "clean", "branch")
     ELSE Gathered(GitBranchDelete(Vanilla(o.s), branch), "rolled back",
                   ResetToCleanState(o.tree), "detached")

\* ----------------------------------------------------------------- pull
\* pull(): merge the branch named by the "Branch:" field of the current
\* ticket into the checked-out branch
Pull(s, conflict, sel) ==
  LET ticket == CurrentTicket(s)
  IN IF ticket = NoTicket THEN Out(s, "ValueError")
     ELSE IF field[ticket] = None THEN Out(s, "ValueError")
     ELSE Merge(s, ArgBranch(field[ticket]), "True", "None", conflict, sel)

\* ----------------------------------------------------------------- push
\* the locals of a push() that is not running
NoPush == [ticket |-> NoTicket, branch |-> None, remote_branch |-> None,
           force |-> FALSE, remote_branch_exists |-> FALSE,
           current_remote_branch |-> None, old_dependencies |-> <<>>]

\* push(): the ticket, the local branch and the remote branch it is about
PushTarget(u, s, remote_branch) ==
  LET ticket == CurrentTicket(s)
  IN [ticket |-> ticket, branch |-> s.cur,
      remote_branch |-> IF remote_branch # None THEN remote_branch
                        ELSE IF ticket # NoTicket THEN RemoteBranchForTicket(u, s, ticket)
                        ELSE RemoteBranchForBranch(s, s.cur)]

\* variant: push never finds that there is nothing to push
NeverNothingToPush(remote_branch_exists, force, commit, fetch_head) == FALSE

\* "Remote branch is idential to your local branch"
IsNothingToPush(remote_branch_exists, force, commit, fetch_head) ==
  remote_branch_exists /\ ~force /\ commit = fetch_head

\* "Create new remote branch?" was asked and answered no
CreationDeclined(remote_branch_exists, confirm) == ~remote_branch_exists /\ ~confirm

\* variant: the commits are pushed whatever the answer
NeverDeclined(force, remote_branch_exists, confirm) == FALSE

\* "Push to remote branch?" was asked, after the list of the local commits
\* that are not on the remote branch, and answered no
PushDeclined(force, remote_branch_exists, confirm) ==
  ~force /\ remote_branch_exists /\ ~confirm

\* variant: push refuses only when both branches have commits of their own
WouldDiscardWhenDiverged(remote_branch_exists, force, commit, fetch_head) ==
  remote_branch_exists /\ ~force /\ Diverged(commit, fetch_head)

\* "Not pushing your changes because they would discard some of the commits
\* on the remote branch": the fetched head is not an ancestor of the local one
WouldDiscard(remote_branch_exists, force, commit, fetch_head) ==
  remote_branch_exists /\ ~(IsAncestorOf(fetch_head, commit) \/ force)

\* push(ticket=ticket): the ticket, the local branch and the remote branch
\* it is about; the branch pushed is the checked-out one
PushTargetFor(u, s, ticket) ==
  [ticket |-> ticket, branch |-> s.cur, remote_branch |-> RemoteBranchForTicket(u, s, ticket)]

\* push(ticket=ticket) asks "Do you really want to proceed?": the ticket has
\* another local branch, or the branch pushed is the branch of another ticket
AsksToProceed(s, ticket, branch) ==
  /\ ~(HasTicketForLocalBranch(s, branch) /\ TicketForLocalBranch(s, branch) = ticket)
  /\ ~(HasLocalBranchForTicket(s, ticket) /\ s.t2b[ticket] = branch)
  /\ HasLocalBranchForTicket(s, ticket) \/ HasTicketForLocalBranch(s, branch)

\* push(force) for the target p up to the point where the commits are sent.
\* confirm: the answer to "Create new remote branch?"
PushStartAt(s, p, force, confirm) ==
  LET remote_branch_exists == RemoteBranchExists(p.remote_branch)
      commit == s.branches[p.branch]
      fetch_head == IF remote_branch_exists THEN remote[p.remote_branch] ELSE {}
      locals == [NoPush EXCEPT !.ticket = p.ticket, !.branch = p.branch,
                               !.remote_branch = p.remote_branch, !.force = force,
                               !.remote_branch_exists = remote_branch_exists]
  IN IF p.remote_branch = None THEN [res |-> "ValueError", p |-> NoPush]
     ELSE IF CreationDeclined(remote_branch_exists, confirm)
     THEN [res |-> "Cancelled", p |-> NoPush]
     ELSE IF WouldDiscard(remote_branch_exists, force, commit, fetch_head)
     THEN [res |-> "Cancelled", p |-> NoPush]
     ELSE IF IsNothingToPush(remote_branch_exists, force, commit, fetch_head)
     THEN [res |-> "nop", p |-> NoPush]
     ELSE [res |-> "running", p |-> locals]

\* push(remote_branch, force) up to the point where the commits are sent
PushStart(u, s, remote_branch, force, confirm) ==
  PushStartAt(s, PushTarget(u, s, remote_branch), force, confirm)

\* push(ticket, force) up to the point where the commits are sent.  proceed:
\* the answer to "Do you really want to proceed?"
PushStartFor(u, s, ticket, force, proceed, confirm) ==
  LET p == PushTargetFor(u, s, ticket)
  IN IF AsksToProceed(s, ticket, p.branch) /\ ~proceed
     THEN [res |-> "Cancelled", p |-> NoPush]
     ELSE PushStartAt(s, p, force, confirm)

\* variant: the server takes every push
GitPushAlways(remote_branch, commit, force) == TRUE

\* git push <branch>:<remote_branch>: the server takes a fast-forward, a new
\* branch, or anything when forced
GitPushOk(remote_branch, commit, force) ==
  \/ force
  \/ remote_branch \notin DOMAIN remote
  \/ IsAncestorOf(remote[remote_branch], commit)

\* variant: the field may always be moved
FieldMayMoveAlways(force, fetch_head, commit) == TRUE

\* the "Branch:" field may be moved away from a branch whose head is
\* fetch_head
FieldMayMove(force, fetch_head, commit) == force \/ IsAncestorOf(fetch_head, commit)

\* variant: the "Branch:" field is not negotiated, push goes on to the
\* dependencies at once
PushFieldSkipped(p, commit, confirm) == "deps"

\* the negotiation of the "Branch:" field of push: where push goes next.
\* confirm: the answer to 'Change the "Branch:" field?'
PushField(p, commit, confirm) ==
  LET current_remote_branch == field[p.ticket]
  IN IF p.ticket = NoTicket THEN "deps"
     ELSE IF current_remote_branch = p.remote_branch THEN "deps"
     ELSE IF current_remote_branch = None THEN "write"
     ELSE IF ~RemoteBranchExists(current_remote_branch) THEN "GitError"
     ELSE IF ~FieldMayMove(p.force, remote[current_remote_branch], commit)
     THEN "Diverged"
     ELSE IF ~confirm THEN "Cancelled"
     ELSE "write"

\* variant: the user is asked whenever the dependencies differ
DependenciesDiffer(old_dependencies, new_dependencies) ==
  old_dependencies # new_dependencies

\* the dependencies on trac and in the working copy differ and the user is
\* asked what to do
DependenciesPrompt(old_dependencies, new_dependencies) ==
  old_dependencies # new_dependencies /\ old_dependencies # <<>>

\* ", ".join(["#"+str(dep) for dep in dependencies]), as a sequence of tokens
RECURSIVE DependenciesString(_)
DependenciesString(dependencies) ==
  IF dependencies = <<>> THEN <<>>
  ELSE IF Len(dependencies) = 1 THEN <<"#", Digits[dependencies[1]]>>
  ELSE <<"#", Digits[dependencies[1]], ", ">> \o DependenciesString(Tail(dependencies))

\* variant: the local dependencies are uploaded whatever the answer
UploadAlways(sel) == TRUE

\* the value of upload after the answer sel to "Action for dependencies?"
UploadAfter(sel) == sel = "upload"

\* variant: push records the remote branch it pushed to
RemoteLinkRecorded(s, branch, remote_branch) ==
  SetRemoteBranchForBranch(s, branch, remote_branch).b2r

\* the remote branches recorded for the local branches when push returns:
\* push never calls _set_remote_branch_for_branch
RemoteLinkAfterPush(s, branch, remote_branch) == s.b2r

\* the list push uploads to the ticket: new_dependencies, the dependencies
\* recorded for the ticket of the branch that was pushed
UploadedDependencies(s, p) ==
  DependenciesForTicket(s, TicketForLocalBranch(s, p.branch))

\* the dependency part of push: "select" (ask the user), "upload" or "none"
PushDependencies(s, p) ==
  IF p.ticket # NoTicket /\ HasTicketForLocalBranch(s, p.branch)
  THEN LET old_dependencies == DependenciesString(tracDeps[p.ticket])
           new_dependencies ==
             DependenciesString(DependenciesForTicket(s, TicketForLocalBranch(s, p.branch)))
       IN IF DependenciesPrompt(old_dependencies, new_dependencies) THEN "select"
          ELSE IF old_dependencies # new_dependencies THEN "upload"
          ELSE "none"
  ELSE "none"

\* ---------------------------------------------------- show_dependencies
\* variant: every dependency is put on the stack
StackAll(stack, ret, dependencies) == stack \o dependencies

\* for d in deps: if d not in stack and d not in ret: stack.append(d)
RECURSIVE StackDependencies(_, _, _)
StackDependencies(stack, ret, dependencies) ==
  IF dependencies = <<>> THEN stack
  ELSE LET d == Head(dependencies)
       IN StackDependencies(IF ~InSeq(d, stack) /\ ~InSeq(d, ret) THEN Append(stack, d)
                           ELSE stack,
                           ret, Tail(dependencies))

\* what the loop of show_dependencies has done so far: the tickets a warning
\* was shown for, and the tickets put on the stack and taken from it, in order
ShowLog(warned, pushed, popped) == [warned |-> warned, pushed |-> pushed, popped |-> popped]

\* the loop "while stack:" of show_dependencies(all=True)
RECURSIVE ShowLoop(_, _, _, _)
ShowLoop(s, stack, ret, log) ==
  IF stack = <<>>
  THEN [ret |-> ret, warned |-> log.warned, pushed |-> log.pushed, popped |-> log.popped]
  ELSE LET t == stack[Len(stack)]
           rest == SubSeq(stack, 1, Len(stack) - 1)
           popped == Append(log.popped, t)
           stacked == StackDependencies(rest, Append(ret, t), DependenciesForTicket(s, t))
       IN IF InSeq(t, ret) THEN ShowLoop(s, rest, ret, ShowLog(log.warned, log.pushed, popped))
          ELSE IF ~HasLocalBranchForTicket(s, t)
          THEN ShowLoop(s, rest, Append(ret, t),
                        ShowLog(log.warned \cup {t}, log.pushed, popped))
          ELSE ShowLoop(s, stacked, Append(ret, t),
                        ShowLog(log.warned,
                                log.pushed \o SubSeq(stacked, Len(rest) + 1, Len(stacked)),
                                popped))

\* variant: the ticket asked about stays in the list
KeepFirst(ret) == ret

\* ret = ret[1:]
DropFirst(ret) == Tail(ret)

\* show_dependencies(ticket, all): the tickets it reports, in order, the
\* tickets it warns about, and the tickets its stack has held
ShowDependencies(s, ticket, all) ==
  IF ticket = NoTicket \/ ~HasLocalBranchForTicket(s, ticket)
  THEN [res |-> "ValueError", ret |-> <<>>, warned |-> {}, pushed |-> <<>>, popped |-> <<>>]
  ELSE IF all
  THEN LET o == ShowLoop(s, <<ticket>>, <<>>, ShowLog({}, <<ticket>>, <<>>))
       IN [res |-> "ok", ret |-> DropFirst(o.ret), warned |-> o.warned,
           pushed |-> o.pushed, popped |-> o.popped]
  ELSE [res |-> "ok", ret |-> DependenciesForTicket(s, ticket), warned |-> {},
        pushed |-> <<>>, popped |-> <<>>]

\* ------------------------------------------------------- initial states
\* the developer of the one-working-copy specification
Developer == "alice"

\* the record of the operation that ran last: its name, its user, how it ended
\* ("running" for a push that has not returned) and the case of its arguments
Done(op, u, res, x) == [op |-> op, u |-> u, res |-> res, x |-> x]

\* a remote branch another developer pushed for ticket 1 before the
\* behaviour starts; its commit is not part of master
PublishedBranch == <<"u/", "carol", "/", "ticket/", "1">>
PublishedCommit == {0}

\* the server: ticket 1 may already have a branch and a dependency on trac
InitServer ==
  /\ remote = [b \in {PublishedBranch} |-> PublishedCommit]
  /\ field \in {[t \in Tickets |-> None],
                [t \in Tickets |-> IF t = 1 THEN PublishedBranch ELSE None]}
  /\ tracDeps = [t \in Tickets |-> IF field[t] = None THEN <<>> ELSE <<ForeignTicket>>]

\* what checkout(ticket=1), checkout(branch="master"), abandon(1) leave in a
\* fresh working copy
TrashedOnce ==
  LET fresh == [branches |-> (MASTER_BRANCH :> {}), cur |-> MASTER_BRANCH,
                t2b |-> <<>>, b2t |-> <<>>, deps |-> [t \in Tickets |-> <<>>],
                b2r |-> <<>>]
      s1 == CheckoutTicket(Developer, fresh, 1, None, BaseEmpty, TRUE, Clean).s
      s2 == CheckoutBranch(s1, MASTER_BRANCH, Clean).s
  IN Abandon(s2, ArgTicket(1)).s

\* working copies: fresh (only master exists and nothing is recorded), or,
\* for the developer, one where ticket 1 was checked out and abandoned
Init ==
  /\ InitServer
  /\ \E s \in {TrashedOnce,
               [TrashedOnce EXCEPT !.branches = (MASTER_BRANCH :> {}), !.b2r = <<>>]} :
       /\ branches = [u \in Users |-> IF u = Developer THEN s.branches
                                     ELSE (MASTER_BRANCH :> {})]
       /\ b2r = [u \in Users |-> IF u = Developer THEN s.b2r ELSE <<>>]
  /\ cur = [u \in Users |-> MASTER_BRANCH]
  /\ t2b = [u \in Users |-> <<>>]
  /\ b2t = [u \in Users |-> <<>>]
  /\ deps = [u \in Users |-> [t \in Tickets |-> <<>>]]
  /\ nextAtom = 1
  /\ nops = 0
  /\ pc = [u \in Users |-> "idle"]
  /\ pl = [u \in Users |-> NoPush]
  /\ last = Done("init", "alice", "ok", "")
  /\ wt = IdleTree

\* -------------------------------------------------------------- actions
\* the (branch, base) arguments of checkout(ticket=...) the developer uses
CheckoutArgs(u) ==
  {[branch |-> None, base |-> b] :
     b \in {BaseEmpty, BaseNone} \cup {ArgTicket(t) : t \in Tickets}}
  \cup {[branch |-> n, base |-> b] :
          n \in DOMAIN branches[u], b \in {BaseEmpty, ArgBranch(MASTER_BRANCH)}}
TargetArgs(u) == {ArgTicket(t) : t \in Tickets}
                   \cup {ArgBranch(n) : n \in DOMAIN branches[u]}

\* the (ticket_or_branch, pull) arguments of merge the developer uses: a
\* ticket with the default pull or without pull, a local branch
MergeArgs(u) ==
  {[arg |-> ArgTicket(t), pull |-> p] : t \in Tickets, p \in {"None", "False"}}
  \cup {[arg |-> ArgBranch(n), pull |-> "None"] : n \in DOMAIN branches[u]}

\* checkout(ticket=t, branch=branch, base=base)
DoCheckoutTicket(u, t, branch, base, confirm, g) ==
  /\ pc[u] = "idle"
  /\ LET o == CheckoutTicket(u, Loc(u), t, branch, base, confirm, g)
     IN /\ SetLoc(u, o.s)
        /\ last' = Done("checkout", u, o.res,
                        IF branch = None /\ base = BaseEmpty THEN "plain" ELSE "args")
  /\ UNCHANGED <<remoteVars, nextAtom, pushVars>>

\* checkout(branch=b)
DoCheckoutBranch(u, b, g) ==
  /\ pc[u] = "idle"
  /\ LET o == CheckoutBranch(Loc(u), b, g)
     IN /\ SetLoc(u, o.s)
        /\ last' = Done("checkout_branch", u, o.res, "")
  /\ UNCHANGED <<remoteVars, nextAtom, pushVars>>

\* git commit on the checked-out branch
DoCommit(u) ==
  /\ pc[u] = "idle"
  /\ nextAtom <= MaxCommits
  /\ branches' = [branches EXCEPT ![u][cur[u]] = @ \cup {nextAtom}]
  /\ nextAtom' = nextAtom + 1
  /\ last' = Done("commit", u, "ok", "")
  /\ UNCHANGED <<cur, regVars, remoteVars, pushVars>>

\* abandon(ticket_or_branch)
DoAbandon(u, arg) ==
  /\ pc[u] = "idle"
  /\ LET o == Abandon(Loc(u), arg)
     IN /\ SetLoc(u, o.s)
        /\ last' = Done("abandon", u, o.res,
                        IF AbandonTarget(Loc(u), arg) = cur[u] THEN "current" ELSE "other")
  /\ UNCHANGED <<remoteVars, nextAtom, pushVars>>

\* prune_tickets()
DoPruneTickets(u, order) ==
  /\ pc[u] = "idle"
  /\ LET o == PruneLoop(Loc(u), order)
     IN /\ SetLoc(u, o.s)
        /\ last' = Done("prune_tickets", u, o.res, "")
  /\ UNCHANGED <<remoteVars, nextAtom, pushVars>>

\* merge(ticket_or_branch, pull, create_dependency)
DoMerge(u, arg, pull, create_dependency, conflict, sel, g) ==
  /\ pc[u] = "idle"
  /\ LET o == MergeGuarded(Loc(u), arg, pull, create_dependency, conflict, sel, g)
     IN /\ SetLoc(u, o.s)
        /\ last' = Done("merge", u, o.res, create_dependency)
  /\ UNCHANGED <<remoteVars, nextAtom, pushVars>>

\* pull()
DoPull(u, sel) ==
  /\ pc[u] = "idle"
  /\ LET o == Pull(Loc(u), TRUE, sel)
     IN /\ SetLoc(u, o.s)
        /\ last' = Done("pull", u, o.res, "")
  /\ UNCHANGED <<remoteVars, nextAtom, pushVars>>

\* how push(force=...) is recorded
ForceTag(force) == IF force THEN "force" ELSE "noforce"

\* push() returns or raises
EndPush(u, res) ==
  /\ pc' = [pc EXCEPT ![u] = "idle"]
  /\ pl' = [pl EXCEPT ![u] = NoPush]
  /\ last' = Done("push", u, res, ForceTag(pl[u].force))

\* push() goes on to its next part
ContinuePush(u, to, p) ==
  /\ pc' = [pc EXCEPT ![u] = to]
  /\ pl' = [pl EXCEPT ![u] = p]
  /\ last' = Done("push", u, "running", ForceTag(p.force))

\* push(force=force) starts: the target is resolved and fetched
PushBegin(u, remote_branch, force, confirm) ==
  /\ pc[u] = "idle"
  /\ LET o == PushStart(u, Loc(u), remote_branch, force, confirm)
     IN IF o.res = "running"
        THEN ContinuePush(u, "push", o.p)
        ELSE /\ last' = Done("push", u, o.res, ForceTag(force))
             /\ UNCHANGED pushVars
  /\ UNCHANGED <<gitVars, regVars, remoteVars, nextAtom>>

\* push(ticket=ticket, force=force) starts
PushBeginFor(u, ticket, force, proceed, confirm) ==
  /\ pc[u] = "idle"
  /\ LET o == PushStartFor(u, Loc(u), ticket, force, proceed, confirm)
     IN IF o.res = "running"
        THEN ContinuePush(u, "push", o.p)
        ELSE /\ last' = Done("push", u, o.res, ForceTag(force))
             /\ UNCHANGED pushVars
  /\ UNCHANGED <<gitVars, regVars, remoteVars, nextAtom>>

\* variant: git push creates a new remote branch without the commits
CreatedEmpty(remote_branch, commit) ==
  IF remote_branch \in DOMAIN remote THEN commit ELSE {}

\* the head of the remote branch after git push <branch>:<remote_branch>
PushedHead(remote_branch, commit) == commit

\* push sends the commits.  confirm: the answer to "Push to remote branch?"
PushCommits(u, confirm) ==
  /\ pc[u] = "push"
  /\ LET p == pl[u]
         commit == branches[u][p.branch]
     IN IF PushDeclined(p.force, p.remote_branch_exists, confirm)
        THEN EndPush(u, "Cancelled") /\ UNCHANGED remote
        ELSE IF ~GitPushOk(p.remote_branch, commit, p.force)
        THEN EndPush(u, "GitError") /\ UNCHANGED remote
        ELSE /\ remote' = Put(remote, p.remote_branch, PushedHead(p.remote_branch, commit))
             /\ ContinuePush(u, "field", p)
  /\ UNCHANGED <<gitVars, regVars, field, tracDeps, nextAtom>>

\* push reads the "Branch:" field of the ticket and decides whether it may
\* be changed
PushReadField(u, confirm) ==
  /\ pc[u] = "field"
  /\ LET p == pl[u]
         to == PushField(p, branches[u][p.branch], confirm)
     IN IF to \in {"deps", "write"}
        THEN ContinuePush(u, to, [p EXCEPT !.current_remote_branch = field[p.ticket]])
        ELSE EndPush(u, to)
  /\ UNCHANGED <<gitVars, regVars, remoteVars, nextAtom>>

\* push writes the "Branch:" field: set_branch_field(ticket, value,
\* expected_old_value)
PushWriteField(u) ==
  /\ pc[u] = "write"
  /\ LET p == pl[u]
     IN IF field[p.ticket] = p.current_remote_branch
        THEN /\ field' = [field EXCEPT ![p.ticket] = p.remote_branch]
             /\ ContinuePush(u, "deps", p)
        ELSE /\ EndPush(u, "Mismatch")
             /\ UNCHANGED field
  /\ UNCHANGED <<gitVars, regVars, remote, tracDeps, nextAtom>>

\* push compares the dependencies: it asks, uploads, or does nothing
PushDepsCompare(u) ==
  /\ pc[u] = "deps"
  /\ LET p == pl[u]
         to == PushDependencies(Loc(u), p)
     IN /\ CASE to = "select" ->
                  /\ ContinuePush(u, "select", [p EXCEPT !.old_dependencies = tracDeps[p.ticket]])
                  /\ UNCHANGED tracDeps
             [] to = "upload" ->
                  /\ tracDeps' = [tracDeps EXCEPT ![p.ticket] = UploadedDependencies(Loc(u), p)]
                  /\ EndPush(u, "ok")
             [] to = "none" ->
                  /\ EndPush(u, "ok")
                  /\ UNCHANGED tracDeps
        /\ b2r' = IF to = "select" THEN b2r
                  ELSE [b2r EXCEPT ![u] = RemoteLinkAfterPush(Loc(u), p.branch, p.remote_branch)]
  /\ UNCHANGED <<gitVars, t2b, b2t, deps, remote, field, nextAtom>>

\* the answer to "Action for dependencies?"
PushDepsAnswer(u, sel) ==
  /\ pc[u] = "select"
  /\ LET p == pl[u]
     IN /\ IF sel = "download"
           THEN deps' = [deps EXCEPT ![u] =
                          SetDependenciesForTicket(Loc(u), p.ticket, p.old_dependencies).deps]
           ELSE UNCHANGED deps
        /\ b2r' = [b2r EXCEPT ![u] = RemoteLinkAfterPush(Loc(u), p.branch, p.remote_branch)]
        /\ UNCHANGED <<t2b, b2t>>
        /\ IF UploadAfter(sel)
           THEN tracDeps' = [tracDeps EXCEPT ![p.ticket] = UploadedDependencies(Loc(u), p)]
           ELSE UNCHANGED tracDeps
  /\ EndPush(u, "ok")
  /\ UNCHANGED <<gitVars, remote, field, nextAtom>>

\* an operation of the developer, counted
Counted(A) == nops < MaxOps /\ nops' = nops + 1 /\ A /\ UNCHANGED wt

Next ==
  \/ \E t \in Tickets, a \in CheckoutArgs(Developer) :
       \E confirm \in IF IsTicketArg(a.base) /\ field[t] # None THEN BOOLEAN ELSE {TRUE},
          g \in GuardAnswers :
         Counted(DoCheckoutTicket(Developer, t, a.branch, a.base, confirm, g))
  \/ \E b \in DOMAIN branches[Developer], g \in GuardAnswers :
       Counted(DoCheckoutBranch(Developer, b, g))
  \/ Counted(DoCommit(Developer))
  \/ \E arg \in TargetArgs(Developer) : Counted(DoAbandon(Developer, arg))
  \/ \E order \in Orders(MergedTicketBranches(Loc(Developer))) :
       Counted(DoPruneTickets(Developer, order))
  \/ \E m \in MergeArgs(Developer) :
       \E cd \in {"None", "True"}, sel \in ConflictAnswers, g \in GuardAnswers :
         Counted(DoMerge(Developer, m.arg, m.pull, cd, TRUE, sel, g))

Spec == Init /\ [][Next]_vars

\* ---------------------------------------------- two developers, one ticket
\* the remote branch alice pushed for ticket 1, and its commit
AliceBranch == DefaultRemoteBranch("alice", 1)

\* alice created ticket/1 with one commit and pushed it, bob checked ticket 1
\* out; since then the dependencies of ticket 1 may have been edited on trac
\* and alice may have merged ticket 2 with create_dependency
InitPush ==
  /\ branches = [u \in Users |->
                  (MASTER_BRANCH :> {}) @@ (<<"ticket/", "1">> :> PublishedCommit)]
  /\ cur = [u \in Users |-> <<"ticket/", "1">>]
  /\ t2b = [u \in Users |-> (1 :> <<"ticket/", "1">>)]
  /\ b2t = [u \in Users |-> (<<"ticket/", "1">> :> 1)]
  /\ b2r = [u \in Users |-> (<<"ticket/", "1">> :> DefaultRemoteBranch(u, 1))]
  /\ remote = (AliceBranch :> PublishedCommit)
  /\ field = [t \in Tickets |-> IF t = 1 THEN AliceBranch ELSE None]
  /\ tracDeps \in {[t \in Tickets |-> <<>>],
                   [t \in Tickets |-> IF t = 1 THEN <<ForeignTicket>> ELSE <<>>]}
  /\ \E d \in {<<>>, <<2>>} :
       deps = [u \in Users |-> [t \in Tickets |->
                 IF t # 1 THEN <<>> ELSE IF u = "alice" THEN d ELSE tracDeps[1]]]
  /\ nextAtom = 1
  /\ nops = 0
  /\ pc = [u \in Users |-> "idle"]
  /\ pl = [u \in Users |-> NoPush]
  /\ last = Done("init", "alice", "ok", "")
  /\ wt = IdleTree

\* an operation of one of the two developers: not counted, what bounds them
\* is the number of commits
Uncounted(A) == A /\ UNCHANGED <<nops, wt>>

\* a step of developer u; forces: the values of force given to push
PushStep(u, forces, remote_branches) ==
  \/ Uncounted(DoCommit(u))
  \/ \E sel \in {"ok", "abort"} : Uncounted(DoPull(u, sel))
  \/ \E remote_branch \in remote_branches, force \in forces, confirm \in BOOLEAN :
       Uncounted(PushBegin(u, remote_branch, force, confirm))
  \/ \E confirm \in BOOLEAN : Uncounted(PushCommits(u, confirm))
  \/ \E confirm \in BOOLEAN : Uncounted(PushReadField(u, confirm))
  \/ Uncounted(PushWriteField(u))
  \/ Uncounted(PushDepsCompare(u))
  \/ \E sel \in {"upload", "download", "keep"} : Uncounted(PushDepsAnswer(u, sel))

NextPush == \E u \in Users : PushStep(u, BOOLEAN, {None})

SpecPush == InitPush /\ [][NextPush]_vars

\* the same two developers when nobody ever passes force=True
NextUnforced == \E u \in Users : PushStep(u, {FALSE}, {None})

SpecUnforced == InitPush /\ [][NextUnforced]_vars

\* two developers who never pass force=True, when bob may also push to the
\* remote branch of alice,
\* with push(remote_branch="u/alice/ticket/1")
NextShared == \E u \in Users : PushStep(u, {FALSE}, {None, AliceBranch})

SpecShared == InitPush /\ [][NextShared]_vars

\* one developer who also pushes the checked-out branch to another ticket,
\* with push(ticket=t)
NextTicket ==
  \/ PushStep("alice", {FALSE}, {None})
  \/ \E t \in Tickets, proceed \in BOOLEAN, confirm \in BOOLEAN :
       Uncounted(PushBeginFor("alice", t, FALSE, proceed, confirm))

SpecTicket == InitPush /\ [][NextTicket]_vars

\* ------------------------------------------- the store of dependencies
\* the lists of tickets given to _set_dependencies_for_ticket; None, which
\* clears, is the empty one
DependencyLists ==
  {None} \cup {<<a>> : a \in Tickets} \cup {<<a, b>> : a \in Tickets, b \in Tickets}

\* _set_dependencies_for_ticket(t, d), called directly
DoSetDependencies(u, t, d) ==
  /\ pc[u] = "idle"
  /\ SetLoc(u, SetDependenciesForTicket(Loc(u), t, d))
  /\ last' = Done("set_dependencies", u, "ok", <<t, d>>)
  /\ UNCHANGED <<remoteVars, nextAtom, pushVars, nops, wt>>

\* _dependencies_for_ticket(t), called directly; res is what it returns
DoGetDependencies(u, t) ==
  /\ pc[u] = "idle"
  /\ last' = Done("dependencies_for", u, DependenciesForTicket(Loc(u), t), <<t>>)
  /\ UNCHANGED <<gitVars, regVars, remoteVars, nextAtom, pushVars, nops, wt>>

NextStore ==
  \/ \E t \in Tickets, d \in DependencyLists : DoSetDependencies(Developer, t, d)
  \/ \E t \in Tickets : DoGetDependencies(Developer, t)

SpecStore == Init /\ [][NextStore]_vars

\* ------------------------------------ one developer and the working tree
\* the branch made with git branch, as in the tests of checkout_branch
Branch1 == <<"branch1">>

\* what the working-tree steps leave alone
treeRest == <<regVars, remoteVars, pushVars, nops>>

\* a tracked file is modified
DoModifyTracked ==
  /\ ~wt.tracked
  /\ wt' = [wt EXCEPT !.tracked = TRUE]
  /\ last' = Done("modify", Developer, "ok", "")
  /\ UNCHANGED <<gitVars, nextAtom, treeRest>>

\* a file git does not track is created
DoCreateUntracked ==
  /\ ~wt.untracked
  /\ wt' = [wt EXCEPT !.untracked = TRUE]
  /\ last' = Done("create", Developer, "ok", "")
  /\ UNCHANGED <<gitVars, nextAtom, treeRest>>

\* git branch branch1
DoGitBranch ==
  /\ GitBranchOk(Loc(Developer), Branch1)
  /\ SetLoc(Developer, GitBranch(Loc(Developer), Branch1, branches[Developer][cur[Developer]]))
  /\ last' = Done("branch", Developer, "ok", "")
  /\ UNCHANGED <<remoteVars, nextAtom, pushVars, nops, wt>>

\* git add, git commit: the changes of tracked files become a commit
DoCommitChanges ==
  /\ wt.state = "idle" /\ wt.tracked
  /\ DoCommit(Developer)
  /\ wt' = [wt EXCEPT !.tracked = FALSE]
  /\ UNCHANGED nops

\* git merge <b> stops with a conflict and leaves the merge open
DoConflictingMerge(b) ==
  /\ wt.state = "idle" /\ ~wt.tracked
  /\ Diverged(branches[Developer][cur[Developer]], branches[Developer][b])
  /\ wt' = [wt EXCEPT !.state = "merge", !.tracked = TRUE]
  /\ last' = Done("git merge", Developer, "GitError", "")
  /\ UNCHANGED <<gitVars, nextAtom, treeRest>>

\* how the arguments and the prompting of a guard are recorded
GuardTag(error_unless_clean, asked) ==
  IF error_unless_clean
  THEN (IF asked THEN "error_unless_clean, asked" ELSE "error_unless_clean")
  ELSE (IF asked THEN "asked" ELSE "")
Asked(x) == x \in {GuardTag(TRUE, TRUE), GuardTag(FALSE, TRUE)}

\* reset_to_clean_state(error_unless_clean)
DoResetToCleanState(error_unless_clean, sel) ==
  /\ LET o == ResetGuard(wt, error_unless_clean, sel)
     IN /\ wt' = o.tree
        /\ last' = Done("reset_to_clean_state", Developer, o.res,
                        GuardTag(error_unless_clean, o.asked))
  /\ UNCHANGED <<gitVars, nextAtom, treeRest>>

\* clean(error_unless_clean)
DoClean(error_unless_clean, rsel, sel) ==
  /\ LET o == CleanGuard(wt, error_unless_clean, rsel, sel)
     IN /\ wt' = o.tree
        /\ last' = Done("clean", Developer, o.res, GuardTag(error_unless_clean, o.asked))
  /\ UNCHANGED <<gitVars, nextAtom, treeRest>>

\* checkout(branch=b) in the working tree as it is
DoCheckoutBranchInTree(b, rsel, sel) ==
  /\ LET o == CheckoutBranchInTree(Loc(Developer), b, wt, rsel, sel)
     IN /\ SetLoc(Developer, o.s)
        /\ wt' = o.tree
        /\ last' = Done("checkout_branch", Developer, o.res, sel)
  /\ UNCHANGED <<remoteVars, nextAtom, pushVars, nops>>

NextTree ==
  \/ DoModifyTracked
  \/ DoCreateUntracked
  \/ DoGitBranch
  \/ DoCommitChanges
  \/ \E b \in DOMAIN branches[Developer] : DoConflictingMerge(b)
  \/ \E e \in BOOLEAN, sel \in ResetOptions(wt) : DoResetToCleanState(e, sel)
  \/ \E e \in BOOLEAN, rsel \in ResetOptions(wt) :
       \E sel \in CleanOptions(e) : DoClean(e, rsel, sel)
  \/ \E b \in DOMAIN branches[Developer], rsel \in ResetOptions(wt) :
       \E sel \in CheckoutOptions(Loc(Developer), b) :
         DoCheckoutBranchInTree(b, rsel, sel)

\* a fresh working copy, nothing on trac
InitTree == Init /\ DOMAIN branches[Developer] = {MASTER_BRANCH} /\ field[1] = None

SpecTree == InitTree /\ [][NextTree]_vars

\* ================================================================ claims
\* the head of the local branch a running push of u is about
PushedCommit(u) == branches[u][pl[u].branch]

\* C1: push negotiation with force unset: when the "Branch:" field of the
\* ticket holds V_old, different from the remote branch V_new being pushed
\* to, and the pushed local branch does not contain the head of V_old, the
\* attempt to move the field fails ("have diverged", the push is cancelled)
\* and the field still holds V_old afterwards.
C1_DivergedPushKeepsField ==
  [][\A u \in Users :
       (/\ pc[u] = "field" /\ pc'[u] # "field"
        /\ ~pl[u].force
        /\ pl[u].ticket # NoTicket
        /\ field[pl[u].ticket] # None
        /\ field[pl[u].ticket] # pl[u].remote_branch
        /\ field[pl[u].ticket] \in DOMAIN remote
        /\ ~(remote[field[pl[u].ticket]] \subseteq PushedCommit(u)))
       => (/\ pc'[u] = "idle"
           /\ last' = Done("push", u, "Diverged", "noforce")
           /\ field' = field)]_vars

\* a push of u has just ended with "have diverged": the field names another
\* developer's branch whose head u's branch does not contain
C1_Witness ==
  \E u \in Users :
    /\ last = Done("push", u, "Diverged", "noforce")
    /\ field[1] # None /\ field[1] # DefaultRemoteBranch(u, 1)
    /\ ~(remote[field[1]] \subseteq branches[u][cur[u]])
    /\ pc[u] = "idle"

\* C2: two developers pushing for one ticket, nobody using force: every
\* write of the "Branch:" field replaces a branch V_old by a branch whose
\* head contains the head V_old has at the moment of the write, and a write
\* whose expected old value is no longer the value of the field fails and
\* leaves the field alone.
C2_FieldWritesFastForward ==
  [][\A u \in Users :
       (pc[u] = "write" /\ pc'[u] # "write") =>
         LET t == pl[u].ticket
         IN /\ (field[t] # pl[u].current_remote_branch) => (field' = field)
            /\ (field'[t] # field[t] /\ field[t] # None) =>
                 (remote[field[t]] \subseteq remote'[field'[t]])]_vars

\* C3: checkout(ticket=T) is idempotent: a second call right after a
\* successful one succeeds and changes nothing: the same branch stays
\* checked out, no branch is created, the link of T and everything else the
\* working copy records stay as they are.
C3_CheckoutIdempotent ==
  \A t \in Tickets :
    LET once == CheckoutTicket(Developer, Loc(Developer), t, None, BaseEmpty, TRUE, Clean)
        twice == CheckoutTicket(Developer, once.s, t, None, BaseEmpty, TRUE, Clean)
    IN /\ once.res = "ok" => (twice.res = "ok" /\ twice.s = once.s)
       /\ (last = Done("checkout", Developer, "ok", "plain")
             /\ t = CurrentTicket(Loc(Developer)))
            => once = Out(Loc(Developer), "ok")

\* checkout(ticket=T) has just succeeded and created the branch of T from
\* the branch on trac
C3_Witness ==
  /\ last = Done("checkout", Developer, "ok", "plain")
  /\ CurrentTicket(Loc(Developer)) = 1
  /\ branches[Developer][cur[Developer]] = PublishedCommit
  /\ field[1] = PublishedBranch
  /\ nops = 1

C5_NoSelfDependency ==
  \A u \in Users : \A t \in Tickets : ~InSeq(t, deps[u][t])

\* the ways to name ticket t as the target of merge or abandon: the ticket,
\* or its local branch
NamesOf(s, t) ==
  {ArgTicket(t)} \cup
  (IF HasLocalBranchForTicket(s, t) THEN {ArgBranch(s.t2b[t])} ELSE {})

\* C6: a successful merge of ticket T2 (given as ticket or as its local
\* branch) with create_dependency=True on the branch of T1 # T2 leaves T2
\* exactly once in the dependencies of T1, after the entries that were there,
\* which keep their order; repeating the merge succeeds and changes no
\* dependencies.
C6_MergeRecordsDependencyOnce ==
  LET s == Loc(Developer)
      T1 == CurrentTicket(s)
  IN T1 # NoTicket =>
       \A T2 \in Tickets \ {T1} : \A arg \in NamesOf(s, T2) :
         \A pull \in {"None", "False"}, sel \in {"ok", "abort"} :
           LET once == Merge(s, arg, pull, "True", TRUE, sel)
               again == Merge(once.s, arg, pull, "True", TRUE, sel)
           IN once.res = "ok" =>
                /\ Count(T2, once.s.deps[T1]) = 1
                /\ once.s.deps[T1] \in {s.deps[T1], Append(s.deps[T1], T2)}
                /\ again.res = "ok"
                /\ again.s.deps = once.s.deps

\* ticket 2 has been merged with create_dependency=True into ticket 1, which
\* already depended on another ticket
C6_Witness ==
  /\ last = Done("merge", Developer, "ok", "True")
  /\ CurrentTicket(Loc(Developer)) = 1
  /\ deps[Developer][1] = <<ForeignTicket, 2>>

\* abandon of a branch b that is bound to a ticket and is not checked out
C7_Abandons(s, b, arg) ==
  LET o == Abandon(s, arg)
      T == s.b2t[b]
      new == DOMAIN o.s.branches \ DOMAIN s.branches
  IN /\ o.res = "ok"
     /\ Cardinality(new) = 1
     /\ \A n \in new : n[1] = "trash/" /\ o.s.branches[n] = s.branches[b]
     /\ DOMAIN s.branches \ DOMAIN o.s.branches = {b}
     /\ \A x \in DOMAIN s.branches \ {b} : o.s.branches[x] = s.branches[x]
     /\ T \notin DOMAIN o.s.t2b
     /\ b \notin DOMAIN o.s.b2t
     /\ o.s.deps[T] = <<>>
     /\ o.s.cur = s.cur

C7_InEveryState ==
  LET s == Loc(Developer)
  IN \A b \in DOMAIN s.b2t :
       (b # s.cur /\ b \in DOMAIN s.branches) =>
         \A arg \in {ArgBranch(b), ArgTicket(s.b2t[b])} : C7_Abandons(s, b, arg)

\* C7: abandon of a local branch B that is bound to ticket T and is not the
\* current branch, given as B or as T, renames B to a trash branch whose
\* name did not exist before (every other branch, trash or not, stays as it
\* was), removes the link between T and B and clears the dependencies of T;
\* an abandon changes nothing on the remote repository or on trac.
C7_AbandonMovesToFreshTrash ==
  /\ []C7_InEveryState
  /\ [][last'.op = "abandon" /\ nops' # nops => UNCHANGED remoteVars]_vars

\* the branch of ticket 1 has been abandoned twice: the second trash branch
\* got a name of its own
C7_Witness ==
  /\ last = Done("abandon", Developer, "ok", "other")
  /\ <<"trash/", "ticket/", "1">> \in DOMAIN branches[Developer]
  /\ <<"trash/", "ticket/", "1", "_">> \in DOMAIN branches[Developer]
  /\ 1 \notin DOMAIN t2b[Developer]

C8_InEveryState ==
  LET s == Loc(Developer)
      byTicket == {ArgTicket(t) : t \in {x \in Tickets :
                     HasLocalBranchForTicket(s, x) /\ s.t2b[x] = s.cur}}
  IN \A arg \in {ArgBranch(s.cur)} \cup byTicket :
       Abandon(s, arg) = Out(s, "Cancelled")

\* C8: abandon of the checked-out branch, given by name or by its ticket,
\* fails (the operation is cancelled) and changes nothing: no branch is
\* renamed, links and dependencies stay, the branch stays checked out.
C8_AbandonCurrentFails ==
  /\ []C8_InEveryState
  /\ [][(last'.op = "abandon" /\ last'.x = "current" /\ nops' # nops) =>
          (last'.res = "Cancelled" /\ UNCHANGED <<gitVars, regVars, remoteVars>>)]_vars

\* abandon of the checked-out branch of ticket 1, which has dependencies,
\* has just failed
C8_Witness ==
  /\ last = Done("abandon", Developer, "Cancelled", "current")
  /\ CurrentTicket(Loc(Developer)) = 1
  /\ deps[Developer][1] # <<>>

\* u starts a push without force while the remote branch it pushes to
\* exists with the head of the local branch
StartsPushOfNothing(u) ==
  LET p == PushTarget(u, Loc(u), None)
  IN /\ pc[u] = "idle"
     /\ last' # last /\ last'.op = "push" /\ last'.u = u /\ last'.x = "noforce"
     /\ p.remote_branch \in DOMAIN remote
     /\ remote[p.remote_branch] = branches[u][p.branch]

\* C9: a push without force, issued when the head of the local branch is
\* the head of the existing remote branch, ends at once with "nothing to
\* push": no commit is pushed, the "Branch:" field and the dependencies on
\* trac are not written.
C9_NothingToPush ==
  [][\A u \in Users :
       StartsPushOfNothing(u) =>
         (/\ last'.res = "nop"
          /\ pc'[u] = "idle"
          /\ UNCHANGED remoteVars)]_vars

\* a push of u has found nothing to push although the "Branch:" field names
\* another branch and the dependencies on trac differ from the local ones
C9_Witness ==
  \E u \in Users :
    /\ last = Done("push", u, "nop", "noforce")
    /\ field[1] # DefaultRemoteBranch(u, 1)
    /\ tracDeps[1] # deps[u][1]

\* u's push compares the dependencies of a ticket-bound branch
ComparesDependencies(u) ==
  /\ pc[u] = "deps" /\ pc'[u] # "deps"
  /\ pl[u].ticket # NoTicket
  /\ HasTicketForLocalBranch(Loc(u), pl[u].branch)

\* C10 as stated: whenever the local dependencies differ from those on
\* trac, push asks {upload, download, keep} and changes neither list before
\* the answer.
C10_PromptWheneverListsDiffer ==
  [][\A u \in Users :
       (ComparesDependencies(u) /\ tracDeps[pl[u].ticket] # deps[u][pl[u].ticket]) =>
         (pc'[u] = "select" /\ UNCHANGED <<tracDeps, deps>>)]_vars

\* C10, amended: push asks {upload, download, keep}, changing neither list
\* before the answer, exactly when the lists differ and the list on trac is
\* not empty; when they differ and the list on trac is empty the local list
\* is uploaded without a question; when they are equal nothing is asked or
\* written.
C10_PromptWhenTracHasDependencies ==
  [][\A u \in Users :
       ComparesDependencies(u) =>
         LET old == tracDeps[pl[u].ticket]
             new == deps[u][pl[u].ticket]
         IN /\ (old # new /\ old # <<>>) =>
                 (pc'[u] = "select" /\ UNCHANGED <<tracDeps, deps>>)
            /\ (old # new /\ old = <<>>) =>
                 (/\ pc'[u] = "idle"
                  /\ tracDeps' = [tracDeps EXCEPT ![pl[u].ticket] = new]
                  /\ UNCHANGED deps)
            /\ (old = new) => (pc'[u] = "idle" /\ UNCHANGED <<tracDeps, deps>>)]_vars

\* push is asking alice what to do: her branch depends on ticket 2, trac
\* says another ticket
C10_Witness ==
  /\ pc["alice"] = "select"
  /\ deps["alice"][1] = <<2>>
  /\ tracDeps[1] = <<ForeignTicket>>
  /\ pl["alice"].old_dependencies = tracDeps[1]

\* the lists of ticket t: on trac, and in u's working copy
ListsUnchanged(u, t) == tracDeps'[t] = tracDeps[t] /\ deps'[u][t] = deps[u][t]

\* C11: the outcome of the dependency reconciliation of push.  With the
\* answer upload the list on trac becomes the local list and the local list
\* is unchanged; with download the local list becomes the list push read
\* from trac and showed in its question, and the list on trac is unchanged;
\* with keep both lists are unchanged; and when push finds the two lists
\* equal it asks nothing and writes neither list.  No list of another ticket
\* or of another developer is written in any of the cases.
C11_DependencyReconciliation ==
  [][\A u \in Users :
       LET t == pl[u].ticket
           others == /\ \A o \in Tickets \ {t} : ListsUnchanged(u, o)
                     /\ \A v \in Users \ {u} : deps'[v] = deps[v]
       IN /\ PushDepsAnswer(u, "upload") =>
               (tracDeps'[t] = deps[u][t] /\ deps'[u][t] = deps[u][t] /\ others)
          /\ PushDepsAnswer(u, "download") =>
               (/\ deps'[u][t] = pl[u].old_dependencies
                /\ tracDeps'[t] = tracDeps[t] /\ others)
          /\ PushDepsAnswer(u, "keep") => (ListsUnchanged(u, t) /\ others)
          /\ (ComparesDependencies(u) /\ tracDeps[t] = deps[u][t]) =>
               (pc'[u] = "idle" /\ ListsUnchanged(u, t) /\ others)]_vars

\* alice has answered download: her list, which was empty or (2), now is the
\* list of trac
C11_Witness ==
  /\ last = Done("push", "alice", "ok", "noforce")
  /\ pc["alice"] = "idle"
  /\ deps["alice"][1] = <<ForeignTicket>>
  /\ tracDeps[1] = <<ForeignTicket>>

\* the ticket and the list of the set_dependencies call that ran last
LastSet == [t |-> last.x[1], d |-> last.x[2]]

NewBranchName(s, t, branch) ==
  IF branch = None THEN NewLocalBranchForTicket(HealLink(s, t), t) ELSE branch

\* checkout(ticket=t, branch, base) in state s has to create a branch: the
\* ticket has no local branch and branch is not an existing one
CreatesBranch(s, t, branch) ==
  /\ ~HasLocalBranchForTicket(s, t)
  /\ ~(branch # None /\ IsLocalBranchName(s, branch, "True"))

\* C13: when checkout of a ticket T without local branch fails during the
\* creation of the branch, the error is raised, the newly named branch does
\* not exist afterwards, no branch that existed before has been deleted, and
\* no link to a branch, no dependencies and no remote branch are recorded
\* for T.
C13_FailedCreationLeavesNothing ==
  \A t \in Tickets, a \in CheckoutArgs(Developer), confirm \in BOOLEAN :
    LET s == Loc(Developer)
        new == NewBranchName(s, t, a.branch)
        o == CheckoutTicket(Developer, s, t, a.branch, a.base, confirm, Clean)
    IN (CreatesBranch(s, t, a.branch) /\ o.res # "ok") =>
         /\ new \notin DOMAIN o.s.branches
         /\ DOMAIN s.branches \subseteq DOMAIN o.s.branches
         /\ t \notin DOMAIN o.s.t2b
         /\ o.s.deps[t] = s.deps[t]
         /\ o.s.b2r = s.b2r

\* C14: checkout(ticket=T) for a ticket without local branch that fails
\* partway, in particular when the user answers cancel to the question about
\* a dirty working directory or a merge in progress after the branch was
\* created, leaves no partial state: the new branch does not exist
\* afterwards, no link to a branch, no dependencies and no remote branch are
\* recorded for T, and the branch that was checked out still is.
C14_FailedCheckoutLeavesNothing ==
  \A t \in Tickets, g \in GuardCases :
    LET s == Loc(Developer)
        new == NewBranchName(s, t, None)
        o == CheckoutTicket(Developer, s, t, None, BaseEmpty, TRUE, g)
    IN (CreatesBranch(s, t, None) /\ o.res # "ok") =>
         /\ new \notin DOMAIN o.s.branches
         /\ t \notin DOMAIN o.s.t2b
         /\ o.s.deps[t] = s.deps[t]
         /\ o.s.b2r = s.b2r
         /\ o.s.cur = s.cur

\* C15: checkout(ticket=T, branch=B) with B an existing local branch other
\* than master and base left at its default ('') links T to B and switches
\* the working directory to B, without creating a branch.
C15_CheckoutBindsExistingBranch ==
  \A t \in Tickets, B \in DOMAIN branches[Developer] \ {MASTER_BRANCH} :
    LET s == Loc(Developer)
        o == CheckoutTicket(Developer, s, t, B, BaseEmpty, TRUE, Clean)
    IN /\ o.res = "ok"
       /\ t \in DOMAIN o.s.t2b /\ o.s.t2b[t] = B
       /\ o.s.cur = B
       /\ o.s.branches = s.branches

\* the values checkout is given for base: a ticket, the name of a local
\* branch, or ''
GivenBases(u) ==
  {BaseEmpty} \cup {ArgTicket(t) : t \in Tickets}
              \cup {ArgBranch(n) : n \in DOMAIN branches[u]}

\* C16: checkout(ticket=T, base=B) that creates a new branch.  With B a
\* ticket, the new branch starts at the head of B's local branch (the head
\* of the branch on trac when B had no local branch and it was pulled), and
\* the dependencies recorded for T are exactly (B), whatever trac lists for
\* T; with B the name of a local branch, or empty, the dependencies recorded
\* for T are those trac lists for T.
C16_BaseGivesDependencies ==
  \A t \in Tickets, base \in GivenBases(Developer), confirm \in BOOLEAN :
    LET s == Loc(Developer)
        new == NewBranchName(s, t, None)
        o == CheckoutTicket(Developer, s, t, None, base, confirm, Clean)
    IN (CreatesBranch(s, t, None) /\ o.res = "ok") =>
         IF IsTicketArg(base)
         THEN /\ o.s.branches[new] = o.s.branches[o.s.t2b[base.t]]
              /\ ~HasLocalBranchForTicket(s, base.t) =>
                    o.s.branches[new] = remote[field[base.t]]
              /\ HasLocalBranchForTicket(s, base.t) =>
                    o.s.branches[new] = s.branches[s.t2b[base.t]]
              /\ o.s.deps[t] = <<base.t>>
         ELSE o.s.deps[t] = tracDeps[t]


\* merge(arg, pull, create_dependency) in state s runs into a conflict: its
\* arguments are accepted and the histories have diverged
MergeConflicts(s, arg, pull, create_dependency) ==
  LET s1 == IF IsTicketArg(arg) THEN HealLink(s, arg.t) ELSE s
      m == MergePlan(s1, arg, pull, create_dependency)
  IN /\ m.res = "ok"
     /\ IF m.pull THEN RemoteBranchExists(m.remote_branch) ELSE m.branch # None
     /\ Diverged(s1.branches[s1.cur], MergeHead(s1, m))

\* C17: when the automatic merge fails and the user answers abort, merge
\* raises OperationCancelledError, and when the commit of the resolution
\* fails after the answer ok, it raises that error; in both cases the state
\* before the merge is restored: the working directory is not in the middle
\* of a merge, has no uncommitted changes, and the head of the current branch
\* is the commit it was.  When the user answers ok and the commit succeeds,
\* the current branch gets a new commit that contains both heads.
C17_ConflictAbortRestores ==
  \A m \in MergeArgs(Developer), cd \in {"None", "True", "False"} :
    LET s == Loc(Developer)
        head == s.branches[s.cur]
        s1 == IF IsTicketArg(m.arg) THEN HealLink(s, m.arg.t) ELSE s
        other == MergeHead(s1, MergePlan(s1, m.arg, m.pull, cd))
        abort == Merge(s, m.arg, m.pull, cd, TRUE, "abort")
        fails == Merge(s, m.arg, m.pull, cd, TRUE, "ok, commit fails")
        ok == Merge(s, m.arg, m.pull, cd, TRUE, "ok")
    IN MergeConflicts(s, m.arg, m.pull, cd) =>
         /\ abort.res = "Cancelled" /\ abort.tree = "clean"
         /\ abort.s.branches = s.branches /\ abort.s.cur = s.cur
         /\ fails.res = "GitError" /\ fails.tree = "clean"
         /\ fails.s.branches = s.branches /\ fails.s.cur = s.cur
         /\ ok.s.cur = s.cur
         /\ ok.s.branches[s.cur] = head \cup other
         /\ ok.s.branches[s.cur] # head
         /\ ok.tree = "clean"

\* the developer has given up a merge that ran into a conflict: a merge was
\* cancelled, and in this state every merge that is cancelled is one with a
\* conflict
C17_Witness ==
  /\ last.op = "merge" /\ last.res = "Cancelled"
  /\ \E m \in MergeArgs(Developer) :
       MergeConflicts(Loc(Developer), m.arg, m.pull, last.x)
  /\ \A m \in MergeArgs(Developer) :
       Merge(Loc(Developer), m.arg, m.pull, last.x, TRUE, "abort").res = "Cancelled"
         => MergeConflicts(Loc(Developer), m.arg, m.pull, last.x)

\* C18: merge(T) while the current branch is the branch of ticket T is
\* refused with an error: nothing is fetched or merged, the head of the
\* current branch and the dependencies of T are unchanged.
C18_MergeIntoItselfRefused ==
  LET s == Loc(Developer)
      T == CurrentTicket(s)
  IN T # NoTicket =>
       \A pull \in {"None", "True", "False"}, cd \in {"None", "True", "False"},
          sel \in ConflictAnswers :
         LET o == Merge(s, ArgTicket(T), pull, cd, TRUE, sel)
         IN /\ o.res = "ValueError"
            /\ o.s.branches = s.branches
            /\ o.s.deps = s.deps
            /\ o.s = s

\* merge of the current ticket has just been refused: the branch on trac
\* holds a commit the current branch lacks, and in this state the only
\* merge that ends in a ValueError is that of the current ticket
C18_Witness ==
  LET s == Loc(Developer)
      T == CurrentTicket(s)
  IN /\ last.op = "merge" /\ last.res = "ValueError"
     /\ T # NoTicket
     /\ field[T] # None
     /\ ~IsAncestorOf(remote[field[T]], s.branches[s.cur])
     /\ \A m \in MergeArgs(Developer) :
          Merge(s, m.arg, m.pull, last.x, TRUE, "ok").res = "ValueError"
            => m.arg = ArgTicket(T)

\* merge(arg, pull, create_dependency) in state s gets as far as git merge:
\* its arguments are accepted and the branch to merge is there
MergeRuns(s, arg, pull, create_dependency) ==
  LET s1 == IF IsTicketArg(arg) THEN HealLink(s, arg.t) ELSE s
      m == MergePlan(s1, arg, pull, create_dependency)
  IN /\ m.res = "ok"
     /\ IF m.pull THEN RemoteBranchExists(m.remote_branch) ELSE m.branch # None

\* C19: merge(X) with create_dependency left at None and X a ticket records
\* a dependency on X if and only if the current branch has a ticket; when it
\* has none, the merge completes without error and records no dependency:
\* the assertion "ticket and current_ticket" before the dependency is
\* recorded never fails.
C19_DefaultDependencyNeedsTicket ==
  \A X \in Tickets, pull \in {"None", "True", "False"} :
    LET s == Loc(Developer)
        T == CurrentTicket(s)
        o == Merge(s, ArgTicket(X), pull, "None", TRUE, "ok")
    IN MergeRuns(s, ArgTicket(X), pull, "None") =>
         /\ o.res = "ok"
         /\ T # NoTicket => InSeq(X, o.s.deps[T])
         /\ T = NoTicket => o.s.deps = s.deps

\* C20: a push with force unset never discards commits of a remote branch.
\* When the remote branch exists and its head is not an ancestor of the head
\* of the local branch, push refuses and leaves the remote branch as it is;
\* and whatever a push without force does to a remote branch, the head the
\* branch had before is an ancestor of (or equal to) the head it has after,
\* also when another developer has pushed to the same remote branch since
\* this push fetched it.
C20_UnforcedPushKeepsCommits ==
  [][\A u \in Users :
       /\ \A rb \in {None, AliceBranch}, confirm \in BOOLEAN :
            LET p == PushTarget(u, Loc(u), rb)
            IN (/\ PushBegin(u, rb, FALSE, confirm)
                /\ RemoteBranchExists(p.remote_branch)
                /\ ~IsAncestorOf(remote[p.remote_branch], branches[u][p.branch]))
               => (pc'[u] = "idle" /\ last'.res = "Cancelled" /\ remote' = remote)
       /\ (pc[u] # "idle" /\ ~pl[u].force) =>
            \A b \in DOMAIN remote :
              b \in DOMAIN remote' /\ IsAncestorOf(remote[b], remote'[b])]_vars

\* bob's push to the remote branch of alice was turned down by the server:
\* alice had pushed a commit to it after bob's push had fetched it
C20_Witness ==
  /\ last = Done("push", "bob", "GitError", "noforce")
  /\ ~IsAncestorOf(remote[AliceBranch], branches["bob"][cur["bob"]])
  /\ ~IsAncestorOf(branches["bob"][cur["bob"]], remote[AliceBranch])

\* u starts push(remote_branch=rb) without force while the remote branch it
\* pushes to exists and the head of the local branch is a proper ancestor of
\* its head
StartsPushFromBehind(u, rb, confirm) ==
  LET p == PushTarget(u, Loc(u), rb)
  IN /\ PushBegin(u, rb, FALSE, confirm)
     /\ RemoteBranchExists(p.remote_branch)
     /\ IsAncestorOf(branches[u][p.branch], remote[p.remote_branch])
     /\ branches[u][p.branch] # remote[p.remote_branch]

\* C21 as stated: a push without force from a local branch that is behind
\* its remote branch ends as a push of nothing ("nothing to push"), with the
\* remote branch, the "Branch:" field and the dependencies on trac unchanged.
C21_BehindIsNothingToPush ==
  [][\A u \in Users, rb \in {None, AliceBranch}, confirm \in BOOLEAN :
       StartsPushFromBehind(u, rb, confirm) =>
         (/\ last'.res = "nop"
          /\ pc'[u] = "idle"
          /\ UNCHANGED remoteVars)]_vars

\* C21, amended: a push without force from a local branch that is behind
\* its remote branch is refused like any push that is not a fast-forward
\* (OperationCancelled, "would discard some of the commits on the remote
\* branch"): no commit is pushed and the remote branch, the "Branch:" field
\* and the dependencies on trac are unchanged.
C21_BehindPushRefused ==
  [][\A u \in Users, rb \in {None, AliceBranch}, confirm \in BOOLEAN :
       StartsPushFromBehind(u, rb, confirm) =>
         (/\ last'.res = "Cancelled"
          /\ pc'[u] = "idle"
          /\ UNCHANGED remoteVars)]_vars

\* alice's push was refused while her branch was behind her remote branch:
\* bob had pushed a commit on top of hers to it
C21_Witness ==
  /\ last = Done("push", "alice", "Cancelled", "noforce")
  /\ pc["alice"] = "idle"
  /\ PushTarget("alice", Loc("alice"), None).remote_branch = AliceBranch
  /\ IsAncestorOf(branches["alice"][cur["alice"]], remote[AliceBranch])
  /\ branches["alice"][cur["alice"]] # remote[AliceBranch]

\* C22: a push without force changes a remote branch only after the user
\* has confirmed it.  When the remote branch is missing and the user
\* declines to create it, and when it exists and the user declines to push
\* the listed commits, push fails with OperationCancelled and the remote
\* branches, the "Branch:" fields and the dependencies on trac are unchanged;
\* a step of an unforced push that is answered no changes a remote branch
\* only when nothing was asked in it, the creation having been confirmed
\* when the push started.
C22_PushNeedsConfirmation ==
  [][\A u \in Users :
       /\ \A rb \in {None, AliceBranch} :
            (/\ PushBegin(u, rb, FALSE, FALSE)
             /\ PushTarget(u, Loc(u), rb).remote_branch # None
             /\ ~RemoteBranchExists(PushTarget(u, Loc(u), rb).remote_branch))
            => (last'.res = "Cancelled" /\ pc'[u] = "idle" /\ UNCHANGED remoteVars)
       /\ (PushCommits(u, FALSE) /\ ~pl[u].force /\ pl[u].remote_branch_exists)
            => (last'.res = "Cancelled" /\ pc'[u] = "idle" /\ UNCHANGED remoteVars)
       /\ (PushCommits(u, FALSE) /\ ~pl[u].force /\ remote' # remote)
            => ~pl[u].remote_branch_exists]_vars

\* alice declined to push the commits listed to her: her branch is still
\* ahead of her remote branch, so that nothing but her answer stopped the push
C22_Witness ==
  /\ last = Done("push", "alice", "Cancelled", "noforce")
  /\ pc["alice"] = "idle"
  /\ PushTarget("alice", Loc("alice"), None).remote_branch = AliceBranch
  /\ IsAncestorOf(remote[AliceBranch], branches["alice"][cur["alice"]])
  /\ branches["alice"][cur["alice"]] # remote[AliceBranch]

C24_KeepOnlyOnSameCommit ==
  [][\A b \in DOMAIN branches[Developer], rsel \in ResetOptions(wt) :
       \A sel \in CheckoutOptions(Loc(Developer), b) :
         LET same == branches[Developer][cur[Developer]] = branches[Developer][b]
         IN DoCheckoutBranchInTree(b, rsel, sel) =>
              /\ (last'.res = "ok" /\ wt'.tracked) => same
              /\ ("keep" \in CheckoutOptions(Loc(Developer), b)) <=> same
              /\ (~same /\ wt.state = "idle" /\ wt.tracked) =>
                   IF sel \in {"discard", "stash"}
                   THEN last'.res = "ok" /\ cur'[Developer] = b /\ ~wt'.tracked
                   ELSE last'.res = "Cancelled" /\ cur' = cur /\ wt' = wt]_vars

\* a checkout of a branch at another commit was answered cancel: it failed
\* and the modified file is still there
C24_Witness ==
  /\ last = Done("checkout_branch", Developer, "Cancelled", "cancel")
  /\ wt.state = "idle" /\ wt.tracked
  /\ \E b \in DOMAIN branches[Developer] :
       branches[Developer][b] # branches[Developer][cur[Developer]]

\* C25: reset_to_clean_state(error_unless_clean).  When git is idle it asks
\* nothing and changes nothing.  In the middle of a merge, the answer reset
\* leaves git idle, the merge and the uncommitted changes being discarded;
\* the answer cancel raises OperationCancelled when error_unless_clean is
\* set and returns normally otherwise, and in both cases leaves the state of
\* git and the files as they were.
C25_ResetGuard ==
  [][\A e \in BOOLEAN, sel \in ResetOptions(wt) :
       DoResetToCleanState(e, sel) =>
         /\ wt.state = "idle" =>
              (wt' = wt /\ last'.res = "ok" /\ ~Asked(last'.x))
         /\ (wt.state # "idle" /\ sel = "reset") =>
              (/\ wt'.state = "idle" /\ ~HasUncommittedChanges(wt')
               /\ last'.res = "ok" /\ Asked(last'.x))
         /\ (wt.state # "idle" /\ sel = "cancel") =>
              (/\ wt' = wt
               /\ Asked(last'.x)
               /\ last'.res = IF e THEN "Cancelled" ELSE "ok")]_vars

\* reset_to_clean_state(error_unless_clean=False) was answered cancel: it
\* returned and the merge is still open
C25_Witness ==
  /\ last = Done("reset_to_clean_state", Developer, "ok", GuardTag(FALSE, TRUE))
  /\ wt.state = "merge" /\ wt.tracked

\* C26: in every reachable state no ticket is bound to a branch in the
\* trash: whatever checkout, abandon and prune_tickets have done, the local
\* branch recorded for a ticket never starts with "trash/"; in particular
\* checkout(ticket=T, branch="trash/...") does not bind the trash branch to T.
C26_NoTicketOnTrash ==
  \A u \in Users : \A t \in DOMAIN t2b[u] : ~IsTrashName(Loc(u), t2b[u][t], "any")

\* the tickets reached from the set R in at most n steps along the recorded
\* dependency lists, a ticket without local branch being a leaf
RECURSIVE ReachedFrom(_, _, _)
ReachedFrom(s, R, n) ==
  IF n = 0 THEN R
  ELSE ReachedFrom(s, R \cup UNION {{DependenciesForTicket(s, t)[i] :
                                       i \in 1..Len(DependenciesForTicket(s, t))} :
                                     t \in {x \in R : HasLocalBranchForTicket(s, x)}},
                   n - 1)

PushSucceeds(u) == pc[u] # "idle" /\ pc'[u] = "idle" /\ last'.res = "ok"

\* C28 as stated: when a push of local branch B to the remote branch R, given
\* as remote_branch or chosen by default, succeeds, R is the remote branch
\* recorded for B afterwards, and a following push of B without
\* remote_branch goes to R.
C28_PushRecordsTarget ==
  [][\A u \in Users :
       PushSucceeds(u) =>
         /\ RemoteBranchForBranch(Loc(u)', pl[u].branch) = pl[u].remote_branch
         /\ PushTarget(u, Loc(u), None)'.remote_branch = pl[u].remote_branch]_vars

\* C28, amended: a successful push of local branch B leaves the remote
\* branch recorded for B as it was: a following push of B without
\* remote_branch goes where it would have gone before, which is the target
\* of this push when that was chosen by default and not when another remote
\* branch was given as remote_branch.
C28_PushKeepsRemoteLink ==
  [][\A u \in Users :
       PushSucceeds(u) =>
         /\ b2r'[u] = b2r[u]
         /\ PushTarget(u, Loc(u), None)'.remote_branch
              = PushTarget(u, Loc(u), None).remote_branch
         /\ (PushTarget(u, Loc(u), None)'.remote_branch = pl[u].remote_branch)
              <=> (pl[u].remote_branch = RemoteBranchForBranch(Loc(u), pl[u].branch))]_vars

\* bob's push(remote_branch="u/alice/ticket/1") succeeded, the only remote
\* branch there is; the remote branch recorded for his branch is another
C28_Witness ==
  /\ last = Done("push", "bob", "ok", "noforce")
  /\ DOMAIN remote = {AliceBranch}
  /\ remote[AliceBranch] = branches["bob"][cur["bob"]]
  /\ remote[AliceBranch] # PublishedCommit
  /\ RemoteBranchForBranch(Loc("bob"), cur["bob"]) # AliceBranch

\* the working tree differs from HEAD by untracked files only
OnlyUntracked(tree) == tree.state = "idle" /\ ~tree.tracked /\ tree.untracked

\* C29 as stated: a working tree whose only difference from HEAD is
\* untracked files is dirty for clean(): it offers discard, cancel and stash,
\* and after the answer discard neither modifications of tracked files nor
\* untracked files remain.
C29_UntrackedIsDirty ==
  [][\A e \in BOOLEAN, rsel \in ResetOptions(wt) : \A sel \in CleanOptions(e) :
       (DoClean(e, rsel, sel) /\ OnlyUntracked(wt)) =>
         /\ Asked(last'.x)
         /\ sel = "discard" => (~wt'.tracked /\ ~wt'.untracked)]_vars

\* C29, amended: a working tree whose only difference from HEAD is
\* untracked files is not dirty for clean(): it asks nothing, returns
\* normally and leaves the untracked files where they are.  Outside a merge,
\* discard, cancel and stash are offered exactly when tracked files have
\* uncommitted changes, and after the answer discard no modification of a
\* tracked file remains.
C29_UntrackedIsNotDirty ==
  [][\A e \in BOOLEAN, rsel \in ResetOptions(wt) : \A sel \in CleanOptions(e) :
       DoClean(e, rsel, sel) =>
         /\ OnlyUntracked(wt) => (~Asked(last'.x) /\ last'.res = "ok" /\ wt' = wt)
         /\ wt.state = "idle" => (Asked(last'.x) <=> wt.tracked)
         /\ (wt.state = "idle" /\ wt.tracked /\ sel = "discard") =>
              (last'.res = "ok" /\ ~wt'.tracked)]_vars

\* clean() has returned without asking and the untracked file is still there
C29_Witness ==
  /\ last.op = "clean" /\ last.res = "ok" /\ ~Asked(last.x)
  /\ OnlyUntracked(wt)

\* C30: the order of the parts of push.  The "Branch:" field is written only
\* by a push whose commits have been pushed in the same invocation, and the
\* dependencies are compared only once the field has been negotiated without
\* error (the branch has no ticket, or the field names the remote branch
\* pushed to).  When the commits are declined or rejected, or the change of
\* the field is refused, push ends there: no later part runs, and the
\* dependencies on trac are unchanged.
C30_PushOrder ==
  [][/\ \A u \in Users :
          /\ (pc[u] # "field" /\ pc'[u] = "field") =>
               (pc[u] = "push" /\ remote'[pl[u].remote_branch] = branches[u][pl[u].branch])
          /\ (pc[u] # "write" /\ pc'[u] = "write") => pc[u] = "field"
          /\ (pc[u] # "deps" /\ pc'[u] = "deps") =>
               (/\ pc[u] \in {"field", "write"}
                /\ pl[u].ticket = NoTicket \/ field'[pl[u].ticket] = pl[u].remote_branch)
          /\ (pc[u] # "select" /\ pc'[u] = "select") => pc[u] = "deps"
          /\ (pc[u] \in {"push", "field", "write"} /\ pc'[u] = "idle") =>
               (last'.res # "ok" /\ field' = field /\ tracDeps' = tracDeps)
          /\ (pc[u] = "push" /\ pc'[u] = "idle") => remote' = remote
     /\ field' # field => \E v \in Users : pc[v] = "write" /\ pc'[v] = "deps"
     /\ tracDeps' # tracDeps =>
          \E v \in Users : pc[v] \in {"deps", "select"} /\ pc'[v] = "idle"]_vars

\* a push has sent its commits and was then refused the change of the
\* "Branch:" field: the dependencies on trac, which differ from the local
\* ones, were not touched
C30_Witness ==
  \E u \in Users :
    /\ last.op = "push" /\ last.u = u /\ last.res = "Diverged"
    /\ RemoteBranchExists(DefaultRemoteBranch(u, 1))
    /\ remote[DefaultRemoteBranch(u, 1)] = branches[u][cur[u]]
    /\ field[1] # DefaultRemoteBranch(u, 1)
    /\ tracDeps[1] # deps[u][1]

\* ------------------------------------------ one working copy with gather
\* the names gather is asked to create: a new name, and the name of a remote
\* branch
GatherBranch == <<"gather_branch">>
GatherNames == {GatherBranch, PublishedBranch}

\* the arguments of gather the developer uses: at most MaxArgs different
\* tickets, local branches and remote branches
GatherArgs(u) ==
  LET one == {ArgTicket(1), ArgBranch(PublishedBranch)}
               \cup {ArgBranch(n) : n \in DOMAIN branches[u] \ {MASTER_BRANCH}}
  IN UNION {{l \in [1..n -> one] : \A i, j \in 1..n : l[i] = l[j] => i = j} :
              n \in 0..MaxArgs}

\* gather(branch, *tickets_or_branches)
DoGather(u, branch, tickets_or_branches, g, sel) ==
  /\ pc[u] = "idle"
  /\ LET o == Gather(Loc(u), branch, tickets_or_branches, g, TRUE, sel)
     IN /\ SetLoc(u, o.s)
        /\ last' = Done("gather", u, o.res, o.tree)
        /\ pc' = [pc EXCEPT ![u] = IF o.head = "detached" THEN "detached" ELSE "idle"]
  /\ UNCHANGED <<remoteVars, nextAtom, pl>>

\* git checkout <branch> with a detached HEAD
DoCheckoutFromDetached(u, b) ==
  /\ pc[u] = "detached"
  /\ b \in DOMAIN branches[u]
  /\ cur' = [cur EXCEPT ![u] = b]
  /\ pc' = [pc EXCEPT ![u] = "idle"]
  /\ last' = Done("git checkout", u, "ok", "")
  /\ UNCHANGED <<branches, regVars, remoteVars, nextAtom, pl>>

NextGather ==
  \/ \E t \in Tickets :
       Counted(DoCheckoutTicket(Developer, t, None, BaseEmpty, TRUE, Clean))
  \/ \E b \in DOMAIN branches[Developer] : Counted(DoCheckoutBranch(Developer, b, Clean))
  \/ Counted(DoCommit(Developer))
  \/ \E branch \in GatherNames, list \in GatherArgs(Developer) :
       \E g \in GuardAnswers, sel \in {"ok", "abort"} :
         Counted(DoGather(Developer, branch, list, g, sel))
  \/ \E b \in DOMAIN branches[Developer] : Counted(DoCheckoutFromDetached(Developer, b))

SpecGather == Init /\ [][NextGather]_vars

\* C31: prune_tickets, run while the checked-out branch is not a merged
\* ticket branch, abandons exactly the local branches that are bound to a
\* ticket and whose head is an ancestor of master (the branch is moved to a
\* trash name that was free or has been freed by this run, and its ticket is
\* left without a branch; its old name stays in use only as the trash name
\* of another abandoned branch), leaves every
\* other branch with its head and its ticket, and a second prune_tickets changes nothing;
\* run on a merged ticket branch it is cancelled and that branch stays bound.
C31_PruneAbandonsMerged ==
  LET s == Loc(Developer)
      merged(b) == /\ HasTicketForLocalBranch(s, b)
                   /\ s.branches[b] \subseteq s.branches[MASTER_BRANCH]
  IN \A order \in Orders(MergedTicketBranches(s)) :
       LET o == PruneLoop(s, order)
       IN IF ~merged(s.cur)
          THEN /\ o.res = "ok"
               /\ \A b \in DOMAIN s.branches :
                    IF merged(b)
                    THEN /\ b \in DOMAIN o.s.branches => IsTrashName(o.s, b, "True")
                         /\ ~HasTicketForLocalBranch(o.s, b)
                         /\ ~HasLocalBranchForTicket(o.s, TicketForLocalBranch(s, b))
                         /\ \E n \in DOMAIN o.s.branches :
                              /\ n \notin DOMAIN s.branches \/ (n # b /\ merged(n))
                              /\ IsTrashName(o.s, n, "True")
                              /\ ~HasTicketForLocalBranch(o.s, n)
                              /\ o.s.branches[n] = s.branches[b]
                    ELSE /\ b \in DOMAIN o.s.branches
                         /\ o.s.branches[b] = s.branches[b]
                         /\ HasTicketForLocalBranch(o.s, b) = HasTicketForLocalBranch(s, b)
                         /\ HasTicketForLocalBranch(s, b) =>
                              TicketForLocalBranch(o.s, b) = TicketForLocalBranch(s, b)
               /\ \A again \in Orders(MergedTicketBranches(o.s)) :
                    PruneLoop(o.s, again) = Out(o.s, "ok")
          ELSE /\ o.res = "Cancelled"
               /\ s.cur \in DOMAIN o.s.branches
               /\ HasTicketForLocalBranch(o.s, s.cur)
               /\ TicketForLocalBranch(o.s, s.cur) = TicketForLocalBranch(s, s.cur)

\* a merged ticket branch and a ticket branch with a commit of its own,
\* neither checked out
C31_Witness ==
  LET s == Loc(Developer)
  IN /\ \E b \in MergedTicketBranches(s) : b # s.cur
     /\ \E b \in DOMAIN s.branches :
          /\ HasTicketForLocalBranch(s, b)
          /\ ~(s.branches[b] \subseteq s.branches[MASTER_BRANCH])
     /\ s.cur \notin MergedTicketBranches(s)

\* the head of the branch an argument of gather denotes: the remote branch of
\* the ticket, the local branch, or the remote branch
DenotedHead(s, x) ==
  IF IsTicketArg(x) THEN remote[field[x.t]]
  ELSE IF x.n \in DOMAIN s.branches THEN s.branches[x.n]
  ELSE remote[x.n]

\* C32: after gather(B, x1, ..., xn) has succeeded, B is a new local branch
\* and the head of the branch every xi denotes is an ancestor of the head of B.
C32_GatherAppliesAll ==
  [][\A branch \in GatherNames, list \in GatherArgs(Developer) :
       \A g \in GuardAnswers, sel \in {"ok", "abort"} :
         DoGather(Developer, branch, list, g, sel) /\ last'.res = "ok" =>
           /\ branch \notin DOMAIN branches[Developer]
           /\ branch \in DOMAIN branches'[Developer]
           /\ \A i \in 1..Len(list) :
                IsAncestorOf(DenotedHead(Loc(Developer), list[i]),
                             branches'[Developer][branch])]_vars

\* C33: when a merge step of gather(B, ...) fails or is aborted after B was
\* created, gather leaves the working directory clean and idle, B is not
\* checked out, and there is no local branch B.
C33_GatherRollsBack ==
  LET s == Loc(Developer)
  IN \A branch \in GatherNames, list \in GatherArgs(Developer) :
       \A g \in {c \in GuardCases : ~GuardCancels(c, FALSE)}, sel \in {"ok", "abort"} :
         LET o == Gather(s, branch, list, g, TRUE, sel)
         IN o.res \notin {"ok", "Cancelled", "ValueError"} =>
              /\ o.tree = "clean"
              /\ o.head = "detached" \/ o.s.cur # branch
              /\ branch \notin DOMAIN o.s.branches

\* a gather on a master with a commit has been rolled back: HEAD is detached
\* and the new branch is gone
C33_Witness ==
  /\ last.op = "gather"
  /\ last.res = "rolled back"
  /\ pc[Developer] = "detached"
  /\ GatherNames \cap DOMAIN branches[Developer] = {}
  /\ branches[Developer][MASTER_BRANCH] # {}

\* ticket t is linked to a local branch that does not exist
Dangling(s, t) == t \in DOMAIN s.t2b /\ s.t2b[t] \notin DOMAIN s.branches

\* C34: when the local branch recorded for ticket T no longer exists, the
\* lookup of T's local branch reports that T has none, shows the warning and
\* removes the link, and a following checkout(ticket=T) creates a branch that
\* did not exist, checks it out and binds it to T.
C34_DanglingLinkHeals ==
  LET s == Loc(Developer)
  IN \A t \in Tickets :
       Dangling(s, t) =>
         LET healed == HealLink(s, t)
             o == CheckoutTicket(Developer, s, t, None, BaseEmpty, TRUE, Clean)
         IN /\ ~HasLocalBranchForTicket(s, t)
            /\ HealWarning(s, t)
            /\ t \notin DOMAIN healed.t2b
            /\ \A b \in DOMAIN healed.b2t : healed.b2t[b] # t
            /\ o.res = "ok"
            /\ o.s.cur \notin DOMAIN s.branches
            /\ o.s.cur \in DOMAIN o.s.branches
            /\ HasLocalBranchForTicket(o.s, t)
            /\ o.s.t2b[t] = o.s.cur
            /\ HasTicketForLocalBranch(o.s, o.s.cur)
            /\ TicketForLocalBranch(o.s, o.s.cur) = t
            /\ ~HealWarning(o.s, t)

\* ticket 1 is linked to a branch that does not exist
C34_Witness ==
  /\ Dangling(Loc(Developer), 1)
  /\ nops < MaxOps

\* C35: when push refuses to move the "Branch:" field because the branches
\* have diverged, the commits are on the remote branch that was pushed to and
\* the refusal leaves them there; no step of the push up to and including
\* the refusal changes the field or a list of dependencies.
C35_RefusalKeepsPushedCommits ==
  [][\A u \in Users :
       /\ (pc[u] = "field" /\ pc'[u] = "idle" /\ last'.res = "Diverged") =>
            /\ pl[u].remote_branch \in DOMAIN remote
            /\ IsAncestorOf(branches[u][pl[u].branch], remote[pl[u].remote_branch])
            /\ remote' = remote
       /\ (pc[u] \in {"idle", "push", "field"} /\ pc'[u] # pc[u] /\ pc'[u] # "write"
              /\ last'.res \in {"running", "Diverged"}) =>
            /\ field' = field
            /\ tracDeps' = tracDeps
            /\ deps' = deps]_vars

\* bob's push has just been refused with "have diverged": the head of his
\* local branch is the head of his remote branch, and the field names the
\* branch of alice
C35_Witness ==
  /\ last = Done("push", "bob", "Diverged", "noforce")
  /\ DefaultRemoteBranch("bob", 1) \in DOMAIN remote
  /\ remote[DefaultRemoteBranch("bob", 1)] = branches["bob"][cur["bob"]]
  /\ field[1] = AliceBranch
  /\ pc["bob"] = "idle"

\* C36: after every operation of the tool, completed or failed, every ticket
\* recorded with a local branch names a local branch that exists.
C36_LinksNameBranches ==
  \A u \in Users : \A t \in DOMAIN t2b[u] : t2b[u][t] \in DOMAIN branches[u]

\* C37: whenever merge fails or is aborted (the guard is cancelled, the
\* remote branch is missing, the conflict is answered with abort, or any
\* other error), the dependencies of the current ticket, and of every other
\* ticket, are what they were before the call; dependencies change only in
\* a merge that succeeded, after a conflict only with the resolution
\* committed.
C37_FailedMergeKeepsDependencies ==
  LET s == Loc(Developer)
  IN \A m \in MergeArgs(Developer), cd \in {"None", "True", "False"} :
       \A sel \in ConflictAnswers, g \in GuardCases :
         LET o == MergeGuarded(s, m.arg, m.pull, cd, TRUE, sel, g)
         IN /\ o.res # "ok" => o.s.deps = s.deps
            /\ o.s.deps # s.deps =>
                 /\ o.res = "ok"
                 /\ o.s.branches[s.cur] # s.branches[s.cur] \/ ~MergeConflicts(s, m.arg, m.pull, cd)

\* a merge with create_dependency=True into the branch of a ticket has just
\* been cancelled, in a state where such a merge of a ticket runs into a
\* conflict
C37_Witness ==
  /\ last = Done("merge", Developer, "Cancelled", "True")
  /\ CurrentTicket(Loc(Developer)) # NoTicket
  /\ \E m \in MergeArgs(Developer) :
       /\ MergeConflicts(Loc(Developer), m.arg, m.pull, "True")
       /\ MergePlan(Loc(Developer), m.arg, m.pull, "True").ticket # NoTicket

\* C38: the dependency part of push reads and writes the lists of one
\* ticket T, the ticket of the push: it asks the user exactly when the list
\* of T on trac differs from the local list of T and is not empty, an upload
\* writes the local list of T to T on trac, and a download writes the list of
\* T on trac to the local list of T, also when the branch pushed is bound to
\* another ticket.
C38_OneTicketReconciled ==
  [][\A u \in Users :
       LET T == pl[u].ticket
           old == DependenciesString(tracDeps[T])
           new == DependenciesString(deps[u][T])
       IN /\ (pc[u] = "deps" /\ pc'[u] # "deps" /\ T # NoTicket
                 /\ HasTicketForLocalBranch(Loc(u), pl[u].branch)) =>
               /\ pc'[u] = "select" <=> (old # new /\ old # <<>>)
               /\ tracDeps' # tracDeps <=> (old # new /\ old = <<>>)
               /\ tracDeps' # tracDeps => tracDeps' = [tracDeps EXCEPT ![T] = deps[u][T]]
          /\ (pc[u] = "select" /\ pc'[u] # "select") =>
               /\ tracDeps' # tracDeps => tracDeps' = [tracDeps EXCEPT ![T] = deps[u][T]]
               /\ deps' # deps => deps' = [deps EXCEPT ![u][T] = tracDeps[T]]]_vars

\* C39: show_dependencies(T, all=True) terminates for every graph of local
\* dependencies, with cycles and self-loops: the loop ends with an empty
\* stack after every ticket was put on the stack at most once and taken from
\* it at most once.
C39_ShowTerminates ==
  \A T \in Tickets :
    LET s == Loc(Developer)
        o == ShowDependencies(s, T, TRUE)
    IN HasLocalBranchForTicket(s, T) =>
         /\ o.res = "ok"
         /\ \A i, j \in 1..Len(o.pushed) : o.pushed[i] = o.pushed[j] => i = j
         /\ \A i, j \in 1..Len(o.popped) : o.popped[i] = o.popped[j] => i = j
         /\ Len(o.popped) = Len(o.pushed)
         /\ Len(o.popped) <= NTickets + 1

\* tickets 1 and 2, both with a local branch, depend on each other
C39_Witness ==
  LET s == Loc(Developer)
  IN /\ HasLocalBranchForTicket(s, 1) /\ HasLocalBranchForTicket(s, 2)
     /\ InSeq(2, s.deps[1]) /\ InSeq(1, s.deps[2])
     /\ ShowDependencies(s, 1, TRUE).popped = <<1, 2>>

\* C40: the master branch is protected in every reachable state: it exists,
\* no ticket is bound to it in either direction, and abandon(master) is
\* cancelled and leaves the branches and the registry as they are, so that
\* neither abandon nor prune_tickets renames it.
C40_MasterProtected ==
  LET s == Loc(Developer)
  IN /\ \A u \in Users :
          /\ MASTER_BRANCH \in DOMAIN branches[u]
          /\ MASTER_BRANCH \notin DOMAIN b2t[u]
          /\ \A t \in DOMAIN t2b[u] : t2b[u][t] # MASTER_BRANCH
     /\ Abandon(s, ArgBranch(MASTER_BRANCH)) = Out(s, "Cancelled")
     /\ \A t \in Tickets, confirm \in BOOLEAN, g \in GuardCases :
          LET o == CheckoutTicket(Developer, s, t, MASTER_BRANCH,
                                  ArgBranch(MASTER_BRANCH), confirm, g)
          IN o.res # "ok" /\ o.s.t2b = s.t2b /\ o.s.b2t = s.b2t
     /\ \A order \in Orders(MergedTicketBranches(s)) :
          LET o == PruneLoop(s, order)
          IN /\ MASTER_BRANCH \in DOMAIN o.s.branches
             /\ o.s.branches[MASTER_BRANCH] = s.branches[MASTER_BRANCH]

\* abandon(master) has just been cancelled while the branch of a ticket was
\* checked out
C40_Witness ==
  /\ last = Done("abandon", Developer, "Cancelled", "other")
  /\ cur[Developer] # MASTER_BRANCH
  /\ CurrentTicket(Loc(Developer)) # NoTicket
  /\ MASTER_BRANCH \in DOMAIN branches[Developer]
====
